---- MODULE Spec2Model ----
(***************************************************************************)
(* A model of desertbus-games (catbox):                                    *)
(*   catbox/room.py                        sockets, command dispatch,      *)
(*                                         fan-out, stop, idle deadline    *)
(*   catbox/site/state.py                  room registry and reaper        *)
(*   catbox/engine/engine.py               episode versions and states     *)
(*   catbox/games/only_connect/episode.py  content and validity            *)
(*   catbox/games/only_connect/play/       room, round state machines      *)
(*   catbox/games/only_connect/cms.py      the edit session                *)
(*   catbox/games/only_connect/engine.py   loading of stored content       *)
(*   catbox/site/__init__.py               the requests to edit a draft    *)
(*   catbox/games/this_or_that/            questions, votes and scores     *)
(*                                                                         *)
(* Texts are modelled as integers (0 is the empty string, -1 the "?"      *)
(* placeholder), except missing-vowels answers and prompts, which are     *)
(* sequences of characters so that check_valid is computed as the code    *)
(* computes it.  Python's None is the empty sequence <<>> and a present   *)
(* value x is <<x>>.  List indices are the code's 0-based indices.        *)
(*                                                                         *)
(* Each specification moves the variables of one part of the program and  *)
(* leaves the others at their initial values.                             *)
(***************************************************************************)
EXTENDS Integers, Sequences, FiniteSets, TLC

VARIABLES
    \* the Only Connect play room
    episode,        \* OnlyConnectRoom.episode (never mutated during play)
    teams,          \* OnlyConnectRoom.teams: the sequence of team scores
    current_round,  \* OnlyConnectRoom.current_round
    current_state,  \* OnlyConnectRoom.current_state: the round handler
    sockets,        \* the sockets attached to the room's endpoints
    pc,             \* per socket: where its command handler is suspended
    frame,          \* per socket: the objects a suspended handler holds on to
    last,           \* the last action or lock_in that changed the room or raised
    \* one room's endpoints and connections
    room_stopped,     \* Room._stopped
    endpoint_stopped, \* per endpoint: Endpoint._stopped
    endpoint_sockets, \* per endpoint: Endpoint._sockets
    transport,        \* per client: its connection ("none", "open", "closed")
    task,             \* per client: the task running Endpoint.__call__ for it
    received,         \* per client: the frames delivered to it, by kind
    event,            \* the last operation on the room, the handler it called and how it ended
    \* the site's registry of rooms
    now,              \* the time, in ticks
    active_rooms,     \* CatBoxState.active_rooms: room code -> room
    active_endpoints, \* CatBoxState.active_endpoints: code -> endpoint of a room
    rooms,            \* the rooms that were created: their state, deadline and codes
    reaper_alive,     \* the task of CatBoxState.reap_rooms is running
    reaped,           \* per room: what reap() gave in the reaper's last sweep
    \* the room in which a draft is edited
    edit_open,            \* the room exists
    edit_episode,         \* OnlyConnectEditRoom.episode: per section, None or its object
    episode_but_enabled,  \* OnlyConnectEditRoom.episode_but_enabled: per section, its object
    heap,                 \* the contents of the section objects
    save_timer,           \* OnlyConnectEditRoom.save_timer
    stored,               \* EpisodeVersion.data of the draft, as json
    outbox,               \* the frames handed to _fanout and not yet sent, oldest first
    editor,               \* per editor: the state of the connection
    frames,               \* per editor: the update frames received
    log,                  \* every update frame broadcast so far, oldest first
    expected,             \* per section switched off: what it held then, with the updates since
    clock,                \* loop.time(), in seconds
    saver,                \* OnlyConnectEditRoom.save_task: the await it is at, and until when
    title,                \* the title and the description of the episode
    stored_title,         \* the title and the description in the Episode table
    edit_status,          \* the state of the version in the EpisodeVersion table
    stopper,              \* the call of OnlyConnectEditRoom.stop: where it is, and who made it
    \* the engine's episodes
    db,                   \* EpisodeVersion: per episode, the state of each version
    loaded,               \* per handler: the Episode object it holds, if any
    \* the stored form of an episode's content
    composed,             \* the content of an episode, if one was composed
    reloaded,             \* what loading its serialised form gave, if it was loaded
    \* the presence map of an edit session
    editing,              \* OnlyConnectEditEndpoint.editing: per socket, None or its position
    positions,            \* per editor: the last editing frame received, if any
    edit_sockets,         \* Endpoint._sockets of the edit endpoint
    edit_task,            \* per editor: the task running Endpoint.__call__ for it
    edit_link,            \* per editor: its connection (none, open, closed)
    edit_stopped,         \* Endpoint._stopped of the edit endpoint
    \* the edit rooms of one draft
    draft_data,           \* EpisodeVersion.data of the draft: per section, its text
    room_copy,            \* per edit room: None or the episode object it holds
    room_timer,           \* per edit room: save_timer is set
    room_over,            \* per edit room: it was stopped
    room_edited,          \* per edit room: the sections its editors have changed
    \* one episode in the tables of the engine
    episode_title,        \* Episode.title and description of the episode
    version_rows,         \* EpisodeVersion: per version, its state and its data
    held,                 \* the episode object an edit room holds, if any
    served,               \* what the last load of the published version gave, if any
    \* the room of a game of This or That
    tot_state,            \* ThisOrThatRoom.state
    question_index,       \* ThisOrThatRoom.question_index
    team_vote,            \* per team: Team.vote
    team_score            \* per team: Team.score

playVars == <<episode, teams, current_round, current_state, sockets, pc, frame, last>>

runtimeVars == <<room_stopped, endpoint_stopped, endpoint_sockets, transport, task, received,
                 event>>

siteVars == <<now, active_rooms, active_endpoints, rooms, reaper_alive, reaped>>

saverVars == <<clock, saver, title, stored_title, edit_status, stopper>>

editVars == <<edit_open, edit_episode, episode_but_enabled, heap, save_timer, stored, outbox,
              editor, frames, log, expected, saverVars>>

engineVars == <<db, loaded>>

storeVars == <<composed, reloaded>>

presenceVars == <<editing, positions, edit_sockets, edit_task, edit_link, edit_stopped>>

twinVars == <<draft_data, room_copy, room_timer, room_over, room_edited>>

shelfVars == <<episode_title, version_rows, held, served>>

totVars == <<tot_state, question_index, team_vote, team_score>>

vars == <<playVars, runtimeVars, siteVars, editVars, engineVars, storeVars, presenceVars, twinVars, shelfVars, totVars>>

\* what the specifications of one part leave alone
notPlayVars == <<runtimeVars, siteVars, editVars, engineVars, storeVars, presenceVars, twinVars, shelfVars, totVars>>

notRuntimeVars == <<playVars, siteVars, editVars, engineVars, storeVars, presenceVars, twinVars, shelfVars, totVars>>

notSiteVars == <<playVars, runtimeVars, editVars, engineVars, storeVars, presenceVars, twinVars, shelfVars, totVars>>

notEditVars == <<playVars, runtimeVars, siteVars, engineVars, storeVars, presenceVars, twinVars, shelfVars, totVars>>

notEngineVars == <<playVars, runtimeVars, siteVars, editVars, storeVars, presenceVars, twinVars, shelfVars, totVars>>

notStoreVars == <<playVars, runtimeVars, siteVars, editVars, engineVars, presenceVars, twinVars, shelfVars, totVars>>

notPresenceVars == <<playVars, runtimeVars, siteVars, editVars, engineVars, storeVars, twinVars, shelfVars, totVars>>

notTwinVars == <<playVars, runtimeVars, siteVars, editVars, engineVars, storeVars, presenceVars, shelfVars, totVars>>

notShelfVars == <<playVars, runtimeVars, siteVars, editVars, engineVars, storeVars, presenceVars, twinVars, totVars>>

notTotVars == <<playVars, runtimeVars, siteVars, editVars, engineVars, storeVars, presenceVars, twinVars, shelfVars>>

(***************************************************************************)
(* Bounds of the model.                                                    *)
(***************************************************************************)
MaxScore == 5        \* no command is taken that would push a score past this
MaxNotFound == 16    \* nor one that grows ActiveWall.not_found past this
MaxConfirming == 4   \* nor one that moves confirming_group past this
MaxGroups == 2       \* missing-vowels episodes have at most this many groups
ToggleReach == 4     \* players click only the first so many cells of the wall's grid
PickReach == 1       \* the host picks among the first so many questions still available
MaxFrames == 1       \* no client is sent more than this many frames of one kind
MaxVisited == 1      \* a visitor comes to the first so many rooms
MaxRooms == 3        \* the site creates at most this many rooms
MaxTime == 2         \* the clock stops after this many ticks
MaxUpdates == 3      \* the editors are sent at most this many update frames
MaxNewGroups == 1    \* editors add at most this many missing-vowels groups
MaxEpisodes == 2     \* the engine holds at most this many episodes
MaxVersions == 2     \* an episode has at most this many versions
DrawReach == 2       \* a room code is drawn among the first so many codes not in use
MaxChanges == 2      \* the frames broadcast in an edit room whose seconds are followed
MaxClock == 11       \* the seconds of an edit room's life that are followed

(***************************************************************************)
(* Program constants.                                                      *)
(***************************************************************************)
MAX_TEAMS == 2
SLOTS_PER_CONNECTION == 4
QUESTIONS_PER_ROUND == 6
INITIAL_STRIKES == 3
POLL == 5             \* the sleep of the saver of an edit room that finds no timer, in seconds
TIMEOUT == 1          \* Room idle timeout: 15 minutes, in ticks of fifteen minutes

None == <<>>
Some(x) == <<x>>
IsNone(o) == o = <<>>
Get(o) == o[1]

Range(s) == {s[i] : i \in 1..Len(s)}

\* list.index(x): the 0-based position of the first x, -1 when absent
IndexOf(s, x) ==
    IF \E i \in 1..Len(s) : s[i] = x
    THEN (CHOOSE i \in 1..Len(s) : s[i] = x /\ \A j \in 1..(i-1) : s[j] # x) - 1
    ELSE -1

\* list.pop(i) for a 0-based i
PopAt(s, i) == SubSeq(s, 1, i) \o SubSeq(s, i + 2, Len(s))

\* list.remove(x): drops the first x (the caller checks that x is there)
RemoveFirst(s, x) == PopAt(s, IndexOf(s, x))

(***************************************************************************)
(* Room and Endpoint (catbox/room.py): the connections of one Only Connect *)
(* room, the dispatch of their messages, the fan-out and stop().           *)
(***************************************************************************)
\* the clients that connect to the room, and the endpoint each of them uses
Clients == {"c1", "c2", "c3"}

ClientEndpoint(c) == IF c = "c3" THEN "overlay" ELSE "gm"

\* OnlyConnectRoom.endpoints, in the order the dict is walked
EndpointOrder == <<"gm", "preview", "overlay">>

Endpoints == Range(EndpointOrder)

\* the orders in which a set may be walked
Perms(S) == {p \in [1..Cardinality(S) -> S] : \A i, j \in 1..Cardinality(S) : p[i] = p[j] => i = j}

\* JSON values as message.json() gives them: the members of an object are
\* a sequence of <<name, value>> pairs, a value is a string or a number
Str(v) == [t |-> "string", v |-> v]
Num(v) == [t |-> "number", v |-> v]

Object(members) == [json |-> "object", members |-> members]
NotObject(kind) == [json |-> kind, members |-> <<>>]
Undecodable == [json |-> "invalid", members |-> <<>>]

Keys(members) == {members[i][1] : i \in 1..Len(members)}

\* dict.get(key, default)
Lookup(members, key, default) ==
    IF key \in Keys(members)
    THEN members[CHOOSE i \in 1..Len(members) : members[i][1] = key][2]
    ELSE default

\* del data["cmd"]
WithoutCmd(members) == SelectSeq(members, LAMBDA m : m[1] # "cmd")

\* getattr(endpoint, name, None): what the name is on an endpoint of the
\* room, whether @command marked it, and the arguments it takes after the
\* socket
NoAttribute == [found |-> FALSE, rpc |-> FALSE, params |-> {}]

GetAttr(e, name) ==
    CASE name = "setup" -> [found |-> TRUE, rpc |-> TRUE, params |-> {}]
      [] name = "action" /\ e = "gm" -> [found |-> TRUE, rpc |-> TRUE, params |-> {"action"}]
      [] name = "close" /\ e = "gm" -> [found |-> TRUE, rpc |-> TRUE, params |-> {}]
      [] name \in {"stop", "fanout", "on_close", "room"} ->
            [found |-> TRUE, rpc |-> FALSE, params |-> {}]
      [] OTHER -> NoAttribute

\* the names of PossibleActions that the model sends
ActionNames == {"START_NEXT_ROUND"}

NoFrames == [error |-> 0, state_change |-> 0, close |-> 0, reply |-> 0]

\* the room as the operators below pass it along
Runtime(rs, es, socks, tr, rcv) ==
    [room_stopped |-> rs, endpoint_stopped |-> es, endpoint_sockets |-> socks,
     transport |-> tr, received |-> rcv]

\* socket.send_json: the frame reaches a client whose connection is open,
\* and the call raises on a connection that is closed or lost
CanSend(rt, c) == rt.transport[c] = "open"

Deliver(rt, cs, kind) ==
    [rt EXCEPT !.received =
        [c \in Clients |-> IF c \in cs THEN [@[c] EXCEPT ![kind] = @ + 1] ELSE @[c]]]

\* asyncio.gather(..., return_exceptions=True) hands the failures back as
\* results: nothing is raised into the caller
GatherRaisesFailure(failed) == failed # {}

GatherRaises(failed) == FALSE

\* Endpoint._fanout over the sockets of one endpoint
EndpointFanout(rt, e) ==
    LET to == {c \in rt.endpoint_sockets[e] : CanSend(rt, c)}
        failed == rt.endpoint_sockets[e] \ to
    IN  [rt |-> Deliver(rt, to, "state_change"), raised |-> GatherRaises(failed)]

RECURSIVE FanoutFrom(_, _)
FanoutFrom(rt, i) ==
    IF i > Len(EndpointOrder) THEN [rt |-> rt, failed |-> {}]
    ELSE LET one == EndpointFanout(rt, EndpointOrder[i])
             rest == FanoutFrom(one.rt, i + 1)
         IN  [rt |-> rest.rt,
              failed |-> rest.failed \cup (IF one.raised THEN {EndpointOrder[i]} ELSE {})]

\* OnlyConnectRoom.fanout
RoomFanout(rt) ==
    LET all == FanoutFrom(rt, 1)
    IN  [rt |-> all.rt, raised |-> GatherRaises(all.failed)]

\* Endpoint.stop from the i-th socket of the copied set on
RECURSIVE StopSockets(_, _, _)
StopSockets(rt, order, i) ==
    IF i > Len(order) THEN [rt |-> rt, raised |-> FALSE]
    ELSE IF ~CanSend(rt, order[i]) THEN [rt |-> rt, raised |-> TRUE]
    ELSE StopSockets([Deliver(rt, {order[i]}, "close") EXCEPT !.transport[order[i]] = "closed"],
                     order, i + 1)

EndpointStop(rt, e, order) ==
    StopSockets([rt EXCEPT !.endpoint_stopped[e] = TRUE], order, 1)

RECURSIVE StopEndpoints(_, _, _)
StopEndpoints(rt, orders, i) ==
    IF i > Len(EndpointOrder) THEN [rt |-> rt, raised |-> FALSE]
    ELSE LET one == EndpointStop(rt, EndpointOrder[i], orders[i])
         IN  IF one.raised THEN one ELSE StopEndpoints(one.rt, orders, i + 1)

\* Room.stop; orders[i] is the order in which the i-th endpoint walks its sockets
RoomStop(rt, orders) == StopEndpoints([rt EXCEPT !.room_stopped = TRUE], orders, 1)

\* the orders in which the endpoints may walk their sockets
StopOrders(socks) ==
    {<<o1, o2, o3>> : o1 \in Perms(socks[EndpointOrder[1]]),
                      o2 \in Perms(socks[EndpointOrder[2]]),
                      o3 \in Perms(socks[EndpointOrder[3]])}

\* the body of a command: what it leaves of the room, whether it raised and
\* whether it returned a frame for the sender
RunCommand(rt, name, args, orders) ==
    CASE name = "setup" -> [rt |-> rt, raised |-> FALSE, reply |-> TRUE]
      [] name = "close" ->
            LET r == RoomStop(rt, orders)
            IN  [rt |-> r.rt, raised |-> r.raised, reply |-> FALSE]
      [] name = "action" ->
            IF Lookup(args, "action", Str("")).v \notin ActionNames
            THEN [rt |-> rt, raised |-> TRUE, reply |-> FALSE]
            ELSE LET r == RoomFanout(rt)
                 IN  [rt |-> r.rt, raised |-> r.raised, reply |-> FALSE]

\* how the handling of one message ends for the task that reads the socket
Handled(rt, ran, ended) == [rt |-> rt, invoked |-> ran, ended |-> ended]

\* the error frame of _parse_message; the exception of a failed send leaves
\* Endpoint.__call__
ErrorFrame(rt, c, ran) ==
    IF CanSend(rt, c) THEN Handled(Deliver(rt, {c}, "error"), ran, "reading")
    ELSE Handled(rt, ran, "failed")

\* Endpoint._parse_message for the message msg of client c on endpoint e
ParseMessage(rt, e, c, msg, orders) ==
    IF msg.json = "invalid" THEN ErrorFrame(rt, c, {})
    ELSE IF msg.json # "object" THEN Handled(rt, {}, "failed")
    ELSE LET cmd_name == Lookup(msg.members, "cmd", Str("[NO COMMAND SPECIFIED]"))
         IN  IF cmd_name.t # "string" THEN Handled(rt, {}, "failed")
             ELSE LET cmd == GetAttr(e, cmd_name.v)
                      args == WithoutCmd(msg.members)
                  IN  IF ~cmd.found \/ ~cmd.rpc THEN ErrorFrame(rt, c, {})
                      ELSE IF Keys(args) # cmd.params THEN ErrorFrame(rt, c, {})
                      ELSE LET r == RunCommand(rt, cmd_name.v, args, orders)
                           IN  IF r.raised THEN ErrorFrame(r.rt, c, {cmd_name.v})
                               ELSE IF ~r.reply
                               THEN Handled(r.rt, {cmd_name.v}, "reading")
                               ELSE IF CanSend(r.rt, c)
                               THEN Handled(Deliver(r.rt, {c}, "reply"), {cmd_name.v}, "reading")
                               ELSE ErrorFrame(r.rt, c, {cmd_name.v})

\* one round of Endpoint._process_messages, and what follows in __call__
\* when the loop ends there
ProcessMessage(rt, e, c, msg, orders) ==
    IF rt.endpoint_stopped[e]
    THEN Handled([rt EXCEPT !.transport[c] = "closed",
                            !.endpoint_sockets[e] = @ \ {c}], {}, "ended")
    ELSE ParseMessage(rt, e, c, msg, orders)

\* the messages the clients send
Messages ==
    { Undecodable,
      NotObject("array"),
      NotObject("null"),
      Object(<<>>),
      Object(<< <<"cmd", Num("5")>> >>),
      Object(<< <<"cmd", Str("nonsense")>> >>),
      Object(<< <<"cmd", Str("stop")>> >>),
      Object(<< <<"cmd", Str("action")>> >>),
      Object(<< <<"cmd", Str("action")>>, <<"action", Str("BOGUS")>> >>),
      Object(<< <<"cmd", Str("action")>>, <<"action", Str("START_NEXT_ROUND")>> >>),
      Object(<< <<"cmd", Str("setup")>> >>),
      Object(<< <<"cmd", Str("setup")>>, <<"extra", Str("x")>> >>),
      Object(<< <<"cmd", Str("close")>> >>) }

\* an operation, the attribute of the endpoint it called as a handler ("" when
\* it called none) and how it ended
Event(op, ran, result) == [op |-> op, ran |-> ran, result |-> result]

\* no client is sent more than MaxFrames frames of one kind
FramesWithinBounds(rt) ==
    \A c \in Clients : \A kind \in DOMAIN NoFrames : rt.received[c][kind] <= MaxFrames

RoomNow == Runtime(room_stopped, endpoint_stopped, endpoint_sockets, transport, received)

Becomes(rt) ==
    /\ room_stopped' = rt.room_stopped
    /\ endpoint_stopped' = rt.endpoint_stopped
    /\ endpoint_sockets' = rt.endpoint_sockets
    /\ transport' = rt.transport
    /\ received' = rt.received

\* Endpoint.__call__ up to its message loop
Connect(c) ==
    /\ task[c] = "none"
    /\ IF endpoint_stopped[ClientEndpoint(c)]
       THEN /\ event' = Event("connect", "", "not found")
            /\ UNCHANGED <<endpoint_sockets, transport, task>>
       ELSE /\ endpoint_sockets' = [endpoint_sockets EXCEPT ![ClientEndpoint(c)] = @ \cup {c}]
            /\ transport' = [transport EXCEPT ![c] = "open"]
            /\ task' = [task EXCEPT ![c] = "reading"]
            /\ event' = Event("connect", "", "joined")
    /\ UNCHANGED <<room_stopped, endpoint_stopped, received>>
    /\ UNCHANGED notRuntimeVars

\* the connection of a client is lost; its task has not noticed yet
Drop(c) ==
    /\ transport[c] = "open"
    /\ transport' = [transport EXCEPT ![c] = "closed"]
    /\ event' = Event("drop", "", "lost")
    /\ UNCHANGED <<room_stopped, endpoint_stopped, endpoint_sockets, task, received>>
    /\ UNCHANGED notRuntimeVars

\* the message loop of a closed connection ends: the rest of __call__
Leave(c) ==
    /\ task[c] = "reading"
    /\ transport[c] = "closed"
    /\ endpoint_sockets' = [endpoint_sockets EXCEPT ![ClientEndpoint(c)] = @ \ {c}]
    /\ task' = [task EXCEPT ![c] = "ended"]
    /\ event' = Event("leave", "", "left")
    /\ UNCHANGED <<room_stopped, endpoint_stopped, transport, received>>
    /\ UNCHANGED notRuntimeVars

\* the name of the command that ran, "" when none did
Ran(names) == IF names = {} THEN "" ELSE CHOOSE name \in names : TRUE

\* a message of client c is read and handled
Receive(c, msg, orders) ==
    /\ task[c] = "reading"
    /\ transport[c] = "open"
    /\ orders \in StopOrders(endpoint_sockets)
    /\ LET r == ProcessMessage(RoomNow, ClientEndpoint(c), c, msg, orders)
           dropped == r.ended = "failed" /\ r.rt.transport[c] = "open"
           rt == IF dropped THEN [r.rt EXCEPT !.transport[c] = "closed"] ELSE r.rt
       IN  /\ FramesWithinBounds(rt)
           /\ Becomes(rt)
           /\ task' = [task EXCEPT ![c] = r.ended]
           /\ event' = Event("message", Ran(r.invoked), r.ended)
    /\ UNCHANGED notRuntimeVars

\* the clients that send messages: the overlay only displays
Senders == {c \in Clients : ClientEndpoint(c) = "gm"}

\* Room.stop() called by the reaper or at shutdown
Stop(orders) ==
    /\ orders \in StopOrders(endpoint_sockets)
    /\ LET r == RoomStop(RoomNow, orders)
       IN  /\ Becomes(r.rt)
           /\ event' = Event("stop", "", IF r.raised THEN "raised" ELSE "returned")
    /\ UNCHANGED task
    /\ UNCHANGED notRuntimeVars

NextRuntime ==
    \/ \E c \in Clients : Connect(c)
    \/ \E c \in Clients : Drop(c)
    \/ \E c \in Clients : Leave(c)
    \/ \E c \in Senders, msg \in Messages :
          \E orders \in StopOrders(endpoint_sockets) : Receive(c, msg, orders)
    \/ \E orders \in StopOrders(endpoint_sockets) : Stop(orders)

\* Room.__init__ and Endpoint.__init__: nothing is connected
InitRuntime ==
    /\ room_stopped = FALSE
    /\ endpoint_stopped = [e \in Endpoints |-> FALSE]
    /\ endpoint_sockets = [e \in Endpoints |-> {}]
    /\ transport = [c \in Clients |-> "none"]
    /\ task = [c \in Clients |-> "none"]
    /\ received = [c \in Clients |-> NoFrames]
    /\ event = Event("init", "", "")

(***************************************************************************)
(* CatBoxState (catbox/site/state.py): the registry of rooms and endpoints *)
(* and the reaper, with Room.ping and Room.reap (catbox/room.py).  Time is *)
(* counted in ticks of fifteen minutes; the reaper may sweep at any time.     *)
(***************************************************************************)
RoomIds == 1..MaxRooms

\* the room codes random.choices may draw, in alphabetical order
Codes == <<"AAAA", "AAAB", "AAAC", "AAAD", "AAAE", "AAAF", "AAAG", "AAAH", "AAAI", "AAAJ">>

\* a dict, in insertion order
Entry(key, value) == [key |-> key, value |-> value]

DictKeys(d) == {d[i].key : i \in 1..Len(d)}

DictValues(d) == {d[i].value : i \in 1..Len(d)}

DictGet(d, key) == d[CHOOSE i \in 1..Len(d) : d[i].key = key].value

DictSet(d, key, value) ==
    IF key \in DictKeys(d)
    THEN [i \in 1..Len(d) |-> IF d[i].key = key THEN Entry(key, value) ELSE d[i]]
    ELSE Append(d, Entry(key, value))

DictDel(d, key) == SelectSeq(d, LAMBDA entry : entry.key # key)

\* list(d.keys())
KeyList(d) == [i \in 1..Len(d) |-> d[i].key]

\* CatBoxState._generate_room_code without its retry, over the first codes
GenerateRoomCodeUnchecked(d) == {Codes[i] : i \in 1..DrawReach}

\* CatBoxState._generate_room_code: a draw is repeated while the code is in
\* active_endpoints; the draws are those of the first DrawReach codes not
\* in use
GenerateRoomCode(d) ==
    {Codes[i] : i \in {k \in 1..Len(Codes) :
        /\ Codes[k] \notin DictKeys(d)
        /\ Cardinality({j \in 1..(k - 1) : Codes[j] \notin DictKeys(d)}) < DrawReach}}

\* the one client of a room in the registry
Visitor == "c1"

\* Room.__init__ at time t: the room, the task of its visitor, its idle
\* deadline and the room_code of each endpoint
NewRoom(t) ==
    [rt |-> Runtime(FALSE, [e \in Endpoints |-> FALSE], [e \in Endpoints |-> {}],
                    [c \in Clients |-> "none"], [c \in Clients |-> NoFrames]),
     task |-> "none",
     ping |-> t + TIMEOUT,
     room_code |-> [e \in Endpoints |-> ""]]

\* Room.ping at time t
Ping(room, t) == IF room.rt.room_stopped THEN room ELSE [room EXCEPT !.ping = t + TIMEOUT]

\* Room.reap at time t
Reap(room, t) ==
    IF room.ping < t
    THEN LET r == RoomStop(room.rt, CHOOSE orders \in StopOrders(room.rt.endpoint_sockets) : TRUE)
         IN  [room |-> [room EXCEPT !.rt = r.rt], raised |-> r.raised,
              returned |-> r.rt.room_stopped]
    ELSE [room |-> room, raised |-> FALSE, returned |-> room.rt.room_stopped]

\* the registry as the operators below pass it along
Registry(ar, ae, rs, alive, results) ==
    [active_rooms |-> ar, active_endpoints |-> ae, rooms |-> rs, reaper_alive |-> alive,
     reaped |-> results]

\* CatBoxState.add_room for room r, with the codes drawn for its endpoints
AddRoomTo(reg, r, drawn) ==
    LET register(ae, i) == DictSet(ae, drawn[i], <<r, EndpointOrder[i]>>)
    IN  [reg EXCEPT
            !.active_rooms = DictSet(@, drawn[1], r),
            !.active_endpoints = register(register(register(@, 1), 2), 3),
            !.rooms[r] = Some([Get(@) EXCEPT
                                  !.room_code = [e \in Endpoints |->
                                      drawn[CHOOSE i \in 1..Len(EndpointOrder) :
                                                EndpointOrder[i] = e]]])]

\* the codes add_room may draw for the three endpoints of a room, one after
\* the other
DrawnCodes(ae, r) ==
    UNION {UNION {{<<c1, c2, c3>> :
                      c3 \in GenerateRoomCode(
                                DictSet(DictSet(ae, c1, <<r, EndpointOrder[1]>>),
                                        c2, <<r, EndpointOrder[2]>>))} :
                  c2 \in GenerateRoomCode(DictSet(ae, c1, <<r, EndpointOrder[1]>>))} :
           c1 \in GenerateRoomCode(ae)}

\* the endpoint codes of a reaped room leave active_endpoints; del raises
\* KeyError on a code that is not there
RECURSIVE DelEndpoints(_, _, _)
DelEndpoints(ae, codes, i) ==
    IF i > Len(codes) THEN [ae |-> ae, raised |-> FALSE]
    ELSE IF codes[i] \notin DictKeys(ae) THEN [ae |-> ae, raised |-> TRUE]
    ELSE DelEndpoints(DictDel(ae, codes[i]), codes, i + 1)

\* the endpoint codes of a room, as reap_rooms lists them
EndpointCodes(room) ==
    SelectSeq([i \in 1..Len(EndpointOrder) |-> room.room_code[EndpointOrder[i]]],
              LAMBDA code : code # "")

\* one sweep of CatBoxState.reap_rooms at time t, from the i-th code of the
\* snapshot on; an exception ends the reaper's task
RECURSIVE ReapRooms(_, _, _, _)
ReapRooms(reg, codes, i, t) ==
    IF i > Len(codes) THEN reg
    ELSE IF codes[i] \notin DictKeys(reg.active_rooms) THEN ReapRooms(reg, codes, i + 1, t)
    ELSE LET r == DictGet(reg.active_rooms, codes[i])
             res == Reap(Get(reg.rooms[r]), t)
             after == [reg EXCEPT !.rooms[r] = Some(res.room)]
         IN  IF res.raised
             THEN [after EXCEPT !.reaper_alive = FALSE, !.reaped[r] = "raised"]
             ELSE IF ~res.returned
             THEN ReapRooms([after EXCEPT !.reaped[r] = "false"], codes, i + 1, t)
             ELSE LET del == DelEndpoints(after.active_endpoints, EndpointCodes(res.room), 1)
                      gone == [after EXCEPT !.active_rooms = DictDel(@, codes[i]),
                                            !.active_endpoints = del.ae,
                                            !.reaped[r] = "true"]
                  IN  IF del.raised THEN [gone EXCEPT !.reaper_alive = FALSE]
                      ELSE ReapRooms(gone, codes, i + 1, t)

NotReaped == [r \in RoomIds |-> "none"]

RegistryNow == Registry(active_rooms, active_endpoints, rooms, reaper_alive, reaped)

RegistryBecomes(reg) ==
    /\ active_rooms' = reg.active_rooms
    /\ active_endpoints' = reg.active_endpoints
    /\ rooms' = reg.rooms
    /\ reaper_alive' = reg.reaper_alive
    /\ reaped' = reg.reaped

\* a room is created and registered (the site's play_episode)
AddRoom(r, drawn) ==
    /\ IsNone(rooms[r])
    /\ \A q \in RoomIds : q < r => ~IsNone(rooms[q])
    /\ drawn \in DrawnCodes(active_endpoints, r)
    /\ RegistryBecomes(AddRoomTo([RegistryNow EXCEPT !.rooms[r] = Some(NewRoom(now))], r, drawn))
    /\ UNCHANGED now
    /\ UNCHANGED notSiteVars

\* the visitor opens the socket of the room's default endpoint
Visit(r) ==
    /\ ~IsNone(rooms[r])
    /\ Get(rooms[r]).room_code["gm"] \in DictKeys(active_endpoints)
    /\ DictGet(active_endpoints, Get(rooms[r]).room_code["gm"]) = <<r, "gm">>
    /\ Get(rooms[r]).task = "none"
    /\ ~Get(rooms[r]).rt.endpoint_stopped["gm"]
    /\ rooms' = [rooms EXCEPT ![r] = Some([Get(@) EXCEPT
                                              !.rt.endpoint_sockets["gm"] = @ \cup {Visitor},
                                              !.rt.transport[Visitor] = "open",
                                              !.task = "reading"])]
    /\ UNCHANGED <<now, active_rooms, active_endpoints, reaper_alive, reaped>>
    /\ UNCHANGED notSiteVars

\* the messages the visitor sends
VisitorMessages ==
    { NotObject("array"),
      Object(<< <<"cmd", Str("setup")>> >>),
      Object(<< <<"cmd", Str("close")>> >>) }

\* Endpoint._process_messages for a message of the visitor of room r
RoomMessage(r, msg) ==
    /\ ~IsNone(rooms[r])
    /\ Get(rooms[r]).task = "reading"
    /\ Get(rooms[r]).rt.transport[Visitor] = "open"
    /\ LET room == Get(rooms[r])
           pinged == IF room.rt.endpoint_stopped["gm"] THEN room ELSE Ping(room, now)
           res == ProcessMessage(room.rt, "gm", Visitor, msg,
                                 CHOOSE orders \in StopOrders(room.rt.endpoint_sockets) : TRUE)
           rt == IF res.ended = "failed"
                 THEN [res.rt EXCEPT !.transport[Visitor] = "closed"] ELSE res.rt
       IN  /\ FramesWithinBounds(rt)
           /\ rooms' = [rooms EXCEPT ![r] = Some([pinged EXCEPT !.rt = rt, !.task = res.ended])]
    /\ UNCHANGED <<now, active_rooms, active_endpoints, reaper_alive, reaped>>
    /\ UNCHANGED notSiteVars

\* the message loop of the visitor's closed socket ends
VisitorLeaves(r) ==
    /\ ~IsNone(rooms[r])
    /\ Get(rooms[r]).task = "reading"
    /\ Get(rooms[r]).rt.transport[Visitor] = "closed"
    /\ rooms' = [rooms EXCEPT ![r] = Some([Get(@) EXCEPT
                                              !.rt.endpoint_sockets["gm"] = @ \ {Visitor},
                                              !.task = "ended"])]
    /\ UNCHANGED <<now, active_rooms, active_endpoints, reaper_alive, reaped>>
    /\ UNCHANGED notSiteVars

\* fifteen minutes pass
Tick ==
    /\ now < MaxTime
    /\ now' = now + 1
    /\ UNCHANGED <<active_rooms, active_endpoints, rooms, reaper_alive, reaped>>
    /\ UNCHANGED notSiteVars

\* the reaper wakes and walks the rooms
Sweep ==
    /\ reaper_alive
    /\ RegistryBecomes(ReapRooms([RegistryNow EXCEPT !.reaped = NotReaped],
                                 KeyList(active_rooms), 1, now))
    /\ UNCHANGED now
    /\ UNCHANGED notSiteVars

\* the rooms that are visited
Visited == 1..MaxVisited

\* a site whose rooms are visited
NextSite ==
    \/ \E r \in Visited : \E drawn \in DrawnCodes(active_endpoints, r) : AddRoom(r, drawn)
    \/ \E r \in Visited : Visit(r)
    \/ \E r \in Visited, msg \in VisitorMessages : RoomMessage(r, msg)
    \/ \E r \in Visited : VisitorLeaves(r)
    \/ Tick
    \/ Sweep

\* a site on which rooms are registered and left alone until they are reaped
NextRegistry ==
    \/ \E r \in RoomIds : \E drawn \in DrawnCodes(active_endpoints, r) : AddRoom(r, drawn)
    \/ Tick
    \/ Sweep

\* CatBoxState.__init__ and start: no room, the reaper running
InitSite ==
    /\ now = 0
    /\ active_rooms = <<>>
    /\ active_endpoints = <<>>
    /\ rooms = [r \in RoomIds |-> None]
    /\ reaper_alive = TRUE
    /\ reaped = NotReaped

(***************************************************************************)
(* The episode editor (catbox/games/only_connect/cms.py): the room of one  *)
(* draft, its editors, the episode with the sections that can be switched  *)
(* off, and the debounced save.  Of the episode, the connection of the     *)
(* first question of the connections round and the connections of the      *)
(* missing-vowels groups are kept.  A section is an object on the heap;    *)
(* the episode and episode_but_enabled hold references to it.              *)
(***************************************************************************)
Editors == {"e1", "e2"}

Sections == {"connections", "missing_vowels"}

\* the objects a section can be: the one loaded with the episode and the
\* one FullEpisodeHelper makes
Loaded(s) == <<s, "loaded">>

Made(s) == <<s, "default">>

Refs == {Loaded(s) : s \in Sections} \cup {Made(s) : s \in Sections}

\* SixQuestions.default() and the empty list of groups
DefaultSection(s) == IF s = "connections" THEN [connection |-> ""] ELSE <<>>

\* the texts an editor types
Values == {"x", "y"}

\* FullEpisodeHelper that makes a section of its own whatever the episode has
FullEpisodeHelperApart(ep) == [s \in Sections |-> Made(s)]

\* FullEpisodeHelper.__init__: the episode's section, or a default one
FullEpisodeHelper(ep) ==
    [s \in Sections |-> IF IsNone(ep[s]) THEN Made(s) ELSE Get(ep[s])]

\* OnlyConnectEpisode.json, without the title and the description
EpisodeJson(ep, objects) ==
    [s \in Sections |-> IF IsNone(ep[s]) THEN None ELSE Some(objects[Get(ep[s])])]

\* range_number: the number, or a ValueError
RangeNumber(number, v_min, v_max) ==
    LET digits == [d \in {"0", "1", "9"} |-> CASE d = "0" -> 0 [] d = "1" -> 1 [] d = "9" -> 9]
    IN  IF number \notin DOMAIN digits THEN None
        ELSE IF digits[number] < v_min \/ digits[number] >= v_max THEN None
        ELSE Some(digits[number])

\* _update_basic_round on the connection of a question: the round after it
\* and whether the update counts
UpdateBasicRound(questions, question_str, element, value) ==
    LET question_number == RangeNumber(question_str, 0, QUESTIONS_PER_ROUND)
    IN  IF IsNone(question_number) THEN [content |-> questions, updated |-> FALSE]
        ELSE IF element = "connection"
        THEN [content |-> IF Get(question_number) = 0
                          THEN [questions EXCEPT !.connection = value] ELSE questions,
              updated |-> TRUE]
        ELSE [content |-> questions, updated |-> FALSE]

\* _update_missing_vowels: the groups after it
UpdateMissingVowels(groups, question, element, value) ==
    IF question = "new" THEN Append(groups, "")
    ELSE LET group_number == RangeNumber(question, 0, Len(groups))
         IN  IF IsNone(group_number) THEN groups
             ELSE IF element = "connection"
             THEN [groups EXCEPT ![Get(group_number) + 1] = value]
             ELSE groups

\* OnlyConnectEditRoom.queue_save that sets no timer
QueueSaveNever(timer, time) == timer

\* OnlyConnectEditRoom.queue_save
QueueSave(timer, time) == IF IsNone(timer) THEN Some(time + 3) ELSE timer

\* the arguments editors give to update(section, question, element, value)
UpdateInputs ==
    {<<"connections", "0", "connection", v>> : v \in Values}
        \cup {<<"missing_vowels", "0", "connection", v>> : v \in Values}
        \cup { <<"connections", "9", "connection", "x">>,
               <<"missing_vowels", "new", "", "">>,
               <<"title", "0", "connection", "x">> }

\* what update(section, question, element, value) makes of a section
\* object, and whether the update is broadcast
Updated(content, input) ==
    CASE input[1] = "connections" ->
            UpdateBasicRound(content, input[2], input[3], input[4])
      [] input[1] = "missing_vowels" ->
            [content |-> UpdateMissingVowels(content, input[2], input[3], input[4]),
             updated |-> TRUE]
      [] OTHER -> [content |-> content, updated |-> FALSE]

\* a broadcast: whose command caused it, the command and the frame
Broadcast(e, cmd, data) == [editor |-> e, cmd |-> cmd, data |-> data]

\* the site's edit_episode opens the room of a draft whose sections are on
\* or off
OpenRoom(on) ==
    /\ ~edit_open
    /\ edit_open' = TRUE
    /\ LET ep == [s \in Sections |-> IF s \in on THEN Some(Loaded(s)) ELSE None]
       IN  /\ edit_episode' = ep
           /\ episode_but_enabled' = FullEpisodeHelper(ep)
           /\ stored' = EpisodeJson(ep, heap)
    /\ saver' = [pc |-> "poll", wake |-> clock + POLL]
    /\ UNCHANGED <<heap, save_timer, outbox, editor, frames, log, expected, clock, title,
                   stored_title, edit_status, stopper>>
    /\ UNCHANGED notEditVars

\* the connection of an editor is lost
EditorDrops(e) ==
    /\ edit_open
    /\ editor[e] = "open"
    /\ editor' = [editor EXCEPT ![e] = "closed"]
    /\ UNCHANGED <<edit_open, edit_episode, episode_but_enabled, heap, save_timer, stored,
                   outbox, frames, log, expected>>
    /\ UNCHANGED saverVars
    /\ UNCHANGED notEditVars

\* a handler has changed the episode: the save is queued and the frame
\* with the episode is handed to _fanout
Announce(e, cmd, ep, objects) ==
    /\ save_timer' = QueueSave(save_timer, clock)
    /\ outbox' = Append(outbox, Broadcast(e, cmd, EpisodeJson(ep, objects)))
    /\ log' = Append(log, Broadcast(e, cmd, EpisodeJson(ep, objects)))

\* an editor at the message loop, with room in the log for one more frame
Reading(e) ==
    /\ edit_open
    /\ editor[e] = "open"
    /\ stopper.pc = "idle"
    /\ \A i \in 1..Len(outbox) : outbox[i].editor # e
    /\ Len(log) < MaxUpdates

\* OnlyConnectEditEndpoint.update up to its await
Update(e, input) ==
    /\ Reading(e)
    /\ input[1] = "missing_vowels" /\ input[2] = "new" =>
           Len(heap[episode_but_enabled["missing_vowels"]]) < MaxNewGroups
    /\ IF input[1] \in Sections
       THEN LET block == episode_but_enabled[input[1]]
                res == Updated(heap[block], input)
                objects == [heap EXCEPT ![block] = res.content]
            IN  /\ heap' = objects
                /\ IF res.updated
                   THEN /\ Announce(e, "update", edit_episode, objects)
                        /\ expected' = [expected EXCEPT ![input[1]] =
                                           IF IsNone(@) THEN @
                                           ELSE Some(Updated(Get(@), input).content)]
                   ELSE UNCHANGED <<save_timer, outbox, log, expected>>
       ELSE UNCHANGED <<heap, save_timer, outbox, log, expected>>
    /\ UNCHANGED <<edit_open, edit_episode, episode_but_enabled, stored, editor, frames>>
    /\ UNCHANGED saverVars
    /\ UNCHANGED notEditVars

\* the names editors give to enable_section and disable_section
SectionNames == Sections \cup {"title"}

\* OnlyConnectEditEndpoint.disable_section up to its await
DisableSection(e, section) ==
    /\ Reading(e)
    /\ IF section \in Sections
       THEN LET ep == [edit_episode EXCEPT ![section] = None]
            IN  /\ edit_episode' = ep
                /\ Announce(e, "disable_section", ep, heap)
                /\ expected' = [expected EXCEPT ![section] =
                                   IF IsNone(edit_episode[section]) THEN @
                                   ELSE Some(heap[Get(edit_episode[section])])]
       ELSE UNCHANGED <<edit_episode, save_timer, outbox, log, expected>>
    /\ UNCHANGED <<edit_open, episode_but_enabled, heap, stored, editor, frames>>
    /\ UNCHANGED saverVars
    /\ UNCHANGED notEditVars

\* OnlyConnectEditEndpoint.enable_section up to its await
EnableSection(e, section) ==
    /\ Reading(e)
    /\ IF section \in Sections
       THEN LET ep == [edit_episode EXCEPT ![section] = Some(episode_but_enabled[section])]
            IN  /\ edit_episode' = ep
                /\ Announce(e, "enable_section", ep, heap)
                /\ expected' = [expected EXCEPT ![section] = None]
       ELSE UNCHANGED <<edit_episode, save_timer, outbox, log, expected>>
    /\ UNCHANGED <<edit_open, episode_but_enabled, heap, stored, editor, frames>>
    /\ UNCHANGED saverVars
    /\ UNCHANGED notEditVars

\* Endpoint._fanout of the oldest frame that waits: every socket whose
\* connection stands gets it, and the handler that sent it ends
EditFanout ==
    /\ outbox # <<>>
    /\ frames' = [e \in Editors |->
                     IF editor[e] = "open" THEN Append(frames[e], Head(outbox).data)
                     ELSE frames[e]]
    /\ outbox' = Tail(outbox)
    /\ UNCHANGED <<edit_open, edit_episode, episode_but_enabled, heap, save_timer, stored,
                   editor, log, expected>>
    /\ UNCHANGED saverVars
    /\ UNCHANGED notEditVars

\* OnlyConnectEditRoom._save finds the timer set and saves the draft
Save ==
    /\ ~IsNone(save_timer)
    /\ stored' = EpisodeJson(edit_episode, heap)
    /\ stored_title' = title
    /\ save_timer' = None
    /\ UNCHANGED <<edit_open, edit_episode, episode_but_enabled, heap, outbox, editor, frames,
                   log, expected, clock, saver, title, edit_status, stopper>>
    /\ UNCHANGED notEditVars

\* EpisodeState (catbox/engine/episode.py)
DRAFT == "DRAFT"

PENDING_REVIEW == "REVIEW"

PUBLISHED == "PUBLISHED"

SUPERSEDED == "UNPUBLISHED"

DISCARDED == "DISCARDED"

\* GameEngine.save without its UPDATE of EpisodeVersion
EngineSaveTitleOnly ==
    /\ stored_title' = title
    /\ stored' = stored

\* GameEngine.save of the room's episode: the title goes to the Episode
\* row, the data to the version's row if that row is a DRAFT
EngineSave ==
    /\ stored_title' = title
    /\ stored' = IF edit_status = DRAFT THEN EpisodeJson(edit_episode, heap) ELSE stored

\* the test of _save on diff = loop.time() - save_timer: it sleeps for diff
\* seconds before it writes when diff is positive
SleepsBeforeSave(diff) == diff > 0

\* one turn of the loop of _save, from `while not self._stopped` to the
\* next await: where the task stops and whether it wrote on the way
SaverLoop(timer, stopped, time) ==
    IF stopped THEN [pc |-> "ended", wake |-> 0, wrote |-> FALSE]
    ELSE IF IsNone(timer) THEN [pc |-> "poll", wake |-> time + POLL, wrote |-> FALSE]
    ELSE IF SleepsBeforeSave(time - Get(timer))
    THEN [pc |-> "diff", wake |-> time + (time - Get(timer)), wrote |-> FALSE]
    ELSE [pc |-> "poll", wake |-> time + POLL, wrote |-> TRUE]

\* OnlyConnectEditRoom._save wakes from its sleep and runs to its next
\* await; ok is whether a write that it makes succeeds.  An exception of
\* engine.save ends the task.
SaverWakes(ok) ==
    /\ saver.pc \in {"poll", "diff"}
    /\ clock >= saver.wake
    /\ LET after == saver.pc = "diff"
           timer == IF after THEN None ELSE save_timer
           turn == SaverLoop(timer, stopper.pc # "idle", clock)
       IN  IF after \/ turn.wrote
           THEN IF ok
                THEN /\ EngineSave
                     /\ save_timer' = None
                     /\ saver' = [pc |-> turn.pc, wake |-> turn.wake]
                ELSE /\ saver' = [pc |-> "raised", wake |-> 0]
                     /\ UNCHANGED <<stored, stored_title, save_timer>>
           ELSE /\ ok
                /\ saver' = [pc |-> turn.pc, wake |-> turn.wake]
                /\ UNCHANGED <<stored, stored_title, save_timer>>
    /\ UNCHANGED <<edit_open, edit_episode, episode_but_enabled, heap, outbox, editor, frames,
                   log, expected, clock, title, edit_status, stopper>>
    /\ UNCHANGED notEditVars

\* a second passes; a task whose sleep is over runs first
SecondPasses ==
    /\ edit_open
    /\ clock < MaxClock
    /\ saver.pc \in {"poll", "diff"} => clock < saver.wake
    /\ clock' = clock + 1
    /\ UNCHANGED <<edit_open, edit_episode, episode_but_enabled, heap, save_timer, stored,
                   outbox, editor, frames, log, expected, saver, title, stored_title,
                   edit_status, stopper>>
    /\ UNCHANGED notEditVars

\* OnlyConnectEditEndpoint.set_meta
SetMeta(e, value) ==
    /\ Reading(e)
    /\ title' = value
    /\ save_timer' = QueueSave(save_timer, clock)
    /\ UNCHANGED <<edit_open, edit_episode, episode_but_enabled, heap, stored, outbox, editor,
                   frames, log, expected, clock, saver, stored_title, edit_status, stopper>>
    /\ UNCHANGED notEditVars

\* OnlyConnectEditRoom.stop up to `await self.save_task`, called by the
\* submit of an editor or by the reaper: the room and the endpoint are
\* stopped and every socket of the endpoint is sent a close frame and closed.
\* The send to a socket whose connection was lost and that its task has not
\* yet discarded (dead) raises.
StopBegins(by, dead) ==
    /\ edit_open
    /\ stopper.pc = "idle"
    /\ by \in Editors => Reading(by)
    /\ dead => \E e \in Editors : editor[e] = "closed"
    /\ IF dead
       THEN /\ stopper' = [pc |-> "close_raised", by |-> by]
            /\ UNCHANGED <<editor, save_timer>>
       ELSE /\ stopper' = [pc |-> "awaits", by |-> by]
            /\ editor' = [e \in Editors |-> "closed"]
            /\ save_timer' = None
    /\ UNCHANGED <<edit_open, edit_episode, episode_but_enabled, heap, stored, outbox, frames,
                   log, expected, clock, saver, title, stored_title, edit_status>>
    /\ UNCHANGED notEditVars

\* OnlyConnectEditRoom.stop from `await self.save_task`, which raises what
\* the task raised, and OnlyConnectEditRoom.submit if an editor's submit
\* made the call; ok is whether the write succeeds
StopEnds(ok) ==
    /\ stopper.pc = "awaits"
    /\ saver.pc \in {"ended", "raised"}
    /\ IF saver.pc = "raised"
       THEN /\ ok
            /\ stopper' = [stopper EXCEPT !.pc = "saver_raised"]
            /\ UNCHANGED <<stored, stored_title, edit_status>>
       ELSE IF ~ok
       THEN /\ stopper' = [stopper EXCEPT !.pc = "save_raised"]
            /\ UNCHANGED <<stored, stored_title, edit_status>>
       ELSE /\ EngineSave
            /\ stopper' = [stopper EXCEPT !.pc = "returned"]
            /\ edit_status' = IF stopper.by \in Editors /\ edit_status = DRAFT
                              THEN PENDING_REVIEW ELSE edit_status
    /\ UNCHANGED <<edit_open, edit_episode, episode_but_enabled, heap, save_timer, outbox,
                   editor, frames, log, expected, clock, saver, title>>
    /\ UNCHANGED notEditVars

\* the commands of a draft with a connections round: one editor changes
\* the connection of the first question, the sections and the title while
\* the other listens and time passes
NextSaver ==
    \/ OpenRoom({"connections"})
    \/ \E e \in Editors : EditorDrops(e)
    \/ /\ Len(log) < MaxChanges
       /\ \/ \E input \in {<<"connections", "0", "connection", "x">>,
                            <<"connections", "9", "connection", "x">>} : Update("e1", input)
          \/ DisableSection("e1", "connections")
          \/ EnableSection("e1", "connections")
    \/ SetMeta("e1", "x")
    \/ EditFanout
    \/ SecondPasses
    \/ \E ok \in BOOLEAN : SaverWakes(ok)
    \/ \E by \in {"e1", "reaper"}, dead \in BOOLEAN : StopBegins(by, dead)
    \/ \E ok \in BOOLEAN : StopEnds(ok)

NextEdit ==
    \/ \E on \in SUBSET Sections : OpenRoom(on)
    \/ \E e \in Editors : EditorDrops(e)
    \/ \E e \in Editors, input \in UpdateInputs : Update(e, input)
    \/ \E e \in Editors, section \in SectionNames : DisableSection(e, section)
    \/ \E e \in Editors, section \in SectionNames : EnableSection(e, section)
    \/ EditFanout
    \/ Save

\* no draft is being edited
InitEdit ==
    /\ edit_open = FALSE
    /\ edit_episode = [s \in Sections |-> None]
    /\ episode_but_enabled = [s \in Sections |-> Made(s)]
    /\ heap = [ref \in Refs |-> DefaultSection(ref[1])]
    /\ save_timer = None
    /\ stored = [s \in Sections |-> None]
    /\ outbox = <<>>
    /\ editor = [e \in Editors |-> "open"]
    /\ frames = [e \in Editors |-> <<>>]
    /\ log = <<>>
    /\ expected = [s \in Sections |-> None]
    /\ clock = 0
    /\ saver = [pc |-> "none", wake |-> 0]
    /\ title = "t"
    /\ stored_title = "t"
    /\ edit_status = DRAFT
    /\ stopper = [pc |-> "idle", by |-> "none"]

(***************************************************************************)
(* GameEngine (catbox/engine/engine.py): the versions of the episodes in   *)
(* the EpisodeVersion table and the Episode objects that handlers have     *)
(* loaded.  A row inserted without a state gets the column's default,      *)
(* DRAFT; the table's definition is not among the sources.                 *)
(***************************************************************************)
EpisodeState == {DRAFT, PENDING_REVIEW, PUBLISHED, SUPERSEDED, DISCARDED}

EpisodeIds == 1..MaxEpisodes

\* the handlers that hold an Episode object
Handles == {"h1", "h2"}

\* an Episode object: its id, its version and its _status
EpisodeObject(id, version, status) == [id |-> id, version |-> version, status |-> status]

\* GameEngine.create_episode: version 1 of a new episode
CreatedVersions == <<DRAFT>>

\* the versions of an episode that are in a state
VersionsIn(rows, state) == {v \in 1..Len(rows) : rows[v] = state}

\* GameEngine._get_or_create_draft_version on the rows of an episode: the
\* rows after it and the versions it may return; no version when the
\* episode has no row
GetOrCreateDraftVersion(rows) ==
    IF VersionsIn(rows, DRAFT) # {}
    THEN [rows |-> rows, versions |-> VersionsIn(rows, DRAFT)]
    ELSE IF rows = <<>> THEN [rows |-> rows, versions |-> {}]
    ELSE [rows |-> Append(rows, DRAFT), versions |-> {Len(rows) + 1}]

\* save_state that looks for the other versions in the state the object
\* had before
DemotionMatchOld(old, new) == old

\* GameEngine.save_state: the state in which the other versions are looked
\* for is episode.state, read after episode._status was set
DemotionMatch(old, new) == new

\* save_state that moves the other versions whatever the new state is
DemotesAlways(state) == TRUE

\* GameEngine.save_state: whether other versions are moved
Demotes(state) == state \notin {DISCARDED, SUPERSEDED}

\* save_state that moves the other versions to SUPERSEDED whatever the new
\* state is
DemotedToSuperseded(state) == SUPERSEDED

\* GameEngine.save_state: the state the other versions are moved to
DemotedTo(state) == IF state = PUBLISHED THEN SUPERSEDED ELSE DISCARDED

\* GameEngine.save_state on the rows of the object's episode
SavedState(rows, object, state) ==
    LET first == IF object.version \in 1..Len(rows) /\ rows[object.version] = object.status
                 THEN [rows EXCEPT ![object.version] = state] ELSE rows
        demoted == DemotedTo(state)
        match == DemotionMatch(object.status, state)
    IN  IF Demotes(state)
        THEN [v \in 1..Len(first) |->
                 IF first[v] = match /\ v # object.version THEN demoted ELSE first[v]]
        ELSE first

\* GameEngine.create_episode
CreateEpisode(id) ==
    /\ db[id] = <<>>
    /\ \A other \in EpisodeIds : other < id => db[other] # <<>>
    /\ db' = [db EXCEPT ![id] = CreatedVersions]
    /\ UNCHANGED loaded
    /\ UNCHANGED notEngineVars

\* GameEngine.get_episode_version by a handler; version 0 asks for the draft
GetEpisodeVersion(h, id, version) ==
    /\ db[id] # <<>>
    /\ IF version = 0
       THEN LET draft == GetOrCreateDraftVersion(db[id])
            IN  /\ Len(draft.rows) <= MaxVersions
                /\ db' = [db EXCEPT ![id] = draft.rows]
                /\ \E v \in draft.versions :
                       loaded' = [loaded EXCEPT ![h] = Some(EpisodeObject(id, v, draft.rows[v]))]
       ELSE /\ version \in 1..Len(db[id])
            /\ loaded' = [loaded EXCEPT ![h] = Some(EpisodeObject(id, version, db[id][version]))]
            /\ UNCHANGED db
    /\ UNCHANGED notEngineVars

\* GameEngine.save_state by a handler, on the object it holds
SaveState(h, state) ==
    /\ ~IsNone(loaded[h])
    /\ LET object == Get(loaded[h])
       IN  /\ db' = [db EXCEPT ![object.id] = SavedState(@, object, state)]
           /\ loaded' = [loaded EXCEPT ![h] = Some([object EXCEPT !.status = state])]
    /\ UNCHANGED notEngineVars

NextEngine ==
    \/ \E id \in EpisodeIds : CreateEpisode(id)
    \/ \E h \in Handles, id \in EpisodeIds, version \in 0..MaxVersions :
           GetEpisodeVersion(h, id, version)
    \/ \E h \in Handles, state \in EpisodeState : SaveState(h, state)

\* no episode, and no handler holding one
InitEngine ==
    /\ db = [id \in EpisodeIds |-> <<>>]
    /\ loaded = [h \in Handles |-> None]

\* no content was composed
InitStore ==
    /\ composed = None
    /\ reloaded = None

(***************************************************************************)
(* The presence map of an edit session (OnlyConnectEditEndpoint.editing,   *)
(* catbox/games/only_connect/cms.py) over the connections of its endpoint  *)
(* (Endpoint.__call__, catbox/room.py).                                    *)
(***************************************************************************)
\* the elements an editor can be at; "null" is the None of init
Positions == {"null", "title"}

\* the `editing` frame: the sockets listed and the position of each
EditingFrame(map) == {<<e, Get(map[e])>> : e \in {x \in Editors : ~IsNone(map[x])}}

\* Endpoint._fanout of a frame: the sockets of the endpoint whose connection
\* stands get it, the failures are logged
PresenceFanout(told, socks, link, data) ==
    [e \in Editors |-> IF e \in socks /\ link[e] = "open" THEN Some(data) ELSE told[e]]

\* OnlyConnectEditEndpoint.announce_editing(socket, element)
AnnounceEditing(map, told, socks, link, socket, element) ==
    LET after == IF IsNone(socket) THEN map ELSE [map EXCEPT ![Get(socket)] = Some(element)]
    IN  [editing |-> after,
         positions |-> PresenceFanout(told, socks, link, EditingFrame(after))]

\* OnlyConnectEditEndpoint.on_close(socket)
OnClose(map, told, socks, link, socket) ==
    IF IsNone(map[socket]) THEN [editing |-> map, positions |-> told]
    ELSE AnnounceEditing([map EXCEPT ![socket] = None], told, socks, link, None, "null")

\* Endpoint.__call__ from the end of the message loop: the socket is
\* discarded and on_close runs
EditorLeaves(e) ==
    LET socks == edit_sockets \ {e}
        r == OnClose(editing, positions, socks, edit_link, e)
    IN  /\ edit_sockets' = socks
        /\ editing' = r.editing
        /\ positions' = r.positions
        /\ edit_task' = [edit_task EXCEPT ![e] = "ended"]

\* Endpoint.__call__ up to its message loop
PresenceConnect(e) ==
    /\ edit_task[e] = "none"
    /\ IF edit_stopped
       THEN /\ edit_task' = [edit_task EXCEPT ![e] = "refused"]
            /\ UNCHANGED <<edit_sockets, edit_link>>
       ELSE /\ edit_sockets' = edit_sockets \cup {e}
            /\ edit_link' = [edit_link EXCEPT ![e] = "open"]
            /\ edit_task' = [edit_task EXCEPT ![e] = "reading"]
    /\ UNCHANGED <<editing, positions, edit_stopped>>
    /\ UNCHANGED notPresenceVars

\* the messages of an editor: announce_editing with an element, init, and
\* a frame whose JSON is no object
PresenceMessages == {<<"announce_editing", p>> : p \in Positions} \cup {<<"init", "null">>, <<"[]", "null">>}

\* one round of Endpoint._process_messages for a message of editor e.  A
\* stopped endpoint closes the socket and the loop ends; data.get on a JSON
\* value that is no object raises outside the try of _parse_message, and
\* the exception leaves Endpoint.__call__ before the socket is discarded.
PresenceReceive(e, msg) ==
    /\ edit_task[e] = "reading"
    /\ edit_link[e] = "open"
    /\ IF edit_stopped
       THEN /\ edit_link' = [edit_link EXCEPT ![e] = "closed"]
            /\ EditorLeaves(e)
       ELSE IF msg[1] = "[]"
       THEN /\ edit_task' = [edit_task EXCEPT ![e] = "failed"]
            /\ edit_link' = [edit_link EXCEPT ![e] = "closed"]
            /\ UNCHANGED <<editing, positions, edit_sockets>>
       ELSE LET r == AnnounceEditing(editing, positions, edit_sockets, edit_link, Some(e), msg[2])
            IN  /\ editing' = r.editing
                /\ positions' = r.positions
                /\ UNCHANGED <<edit_sockets, edit_link, edit_task>>
    /\ UNCHANGED edit_stopped
    /\ UNCHANGED notPresenceVars

\* the client of an editor closes the connection; its task has not noticed yet
PresenceClose(e) ==
    /\ edit_link[e] = "open"
    /\ edit_link' = [edit_link EXCEPT ![e] = "closed"]
    /\ UNCHANGED <<editing, positions, edit_sockets, edit_task, edit_stopped>>
    /\ UNCHANGED notPresenceVars

\* the message loop of a closed connection ends: the rest of __call__
PresenceLeave(e) ==
    /\ edit_task[e] = "reading"
    /\ edit_link[e] = "closed"
    /\ EditorLeaves(e)
    /\ UNCHANGED <<edit_link, edit_stopped>>
    /\ UNCHANGED notPresenceVars

\* Endpoint.stop from the i-th socket of the copied set on: the send to a
\* socket that is closed raises and ends the walk
RECURSIVE PresenceStopSockets(_, _, _)
PresenceStopSockets(link, order, i) ==
    IF i > Len(order) THEN link
    ELSE IF link[order[i]] # "open" THEN link
    ELSE PresenceStopSockets([link EXCEPT ![order[i]] = "closed"], order, i + 1)

\* Room.stop of the edit room, as far as its edit endpoint
PresenceStop(order) ==
    /\ ~edit_stopped
    /\ order \in Perms(edit_sockets)
    /\ edit_stopped' = TRUE
    /\ edit_link' = PresenceStopSockets(edit_link, order, 1)
    /\ UNCHANGED <<editing, positions, edit_sockets, edit_task>>
    /\ UNCHANGED notPresenceVars

NextPresence ==
    \/ \E e \in Editors : PresenceConnect(e)
    \/ \E e \in Editors, msg \in PresenceMessages : PresenceReceive(e, msg)
    \/ \E e \in Editors : PresenceClose(e)
    \/ \E e \in Editors : PresenceLeave(e)
    \/ \E order \in Perms(edit_sockets) : PresenceStop(order)

\* an edit endpoint to which nobody has connected
InitPresence ==
    /\ editing = [e \in Editors |-> None]
    /\ positions = [e \in Editors |-> None]
    /\ edit_sockets = {}
    /\ edit_task = [e \in Editors |-> "none"]
    /\ edit_link = [e \in Editors |-> "none"]
    /\ edit_stopped = FALSE

(***************************************************************************)
(* The edit rooms of one draft (CatBoxApplication.edit_episode,            *)
(* catbox/site/__init__.py): every request to edit loads the version and   *)
(* opens a room of its own around the object it loaded.  Of the content,   *)
(* one text per section is kept.                                           *)
(***************************************************************************)
EditRooms == {"r1", "r2"}

\* the content of the draft when it was created
BlankDraft == [s \in Sections |-> "t"]

\* CatBoxApplication.edit_episode: get_episode_version loads the draft and
\* engine.edit_episode makes a room for the loaded object, whatever rooms
\* there are
EditEpisode(r) ==
    /\ room_copy[r] = None
    /\ ~room_over[r]
    /\ room_copy' = [room_copy EXCEPT ![r] = Some(draft_data)]
    /\ UNCHANGED <<draft_data, room_timer, room_over, room_edited>>
    /\ UNCHANGED notTwinVars

\* OnlyConnectEditEndpoint.update in the room r: the room's object is
\* changed and the save is queued
TwinUpdate(r, section, value) ==
    /\ room_copy[r] # None
    /\ room_copy' = [room_copy EXCEPT ![r] = Some([Get(@) EXCEPT ![section] = value])]
    /\ room_timer' = [room_timer EXCEPT ![r] = TRUE]
    /\ room_edited' = [room_edited EXCEPT ![r] = @ \cup {section}]
    /\ UNCHANGED <<draft_data, room_over>>
    /\ UNCHANGED notTwinVars

\* engine.save(episode) of a draft: the stored data become the room's object
TwinEngineSave(r) == draft_data' = Get(room_copy[r])

\* OnlyConnectEditRoom._save in the room r finds the timer set and writes
TwinSave(r) ==
    /\ room_copy[r] # None
    /\ room_timer[r]
    /\ TwinEngineSave(r)
    /\ room_timer' = [room_timer EXCEPT ![r] = FALSE]
    /\ UNCHANGED <<room_copy, room_over, room_edited>>
    /\ UNCHANGED notTwinVars

\* OnlyConnectEditRoom.stop of the room r, called by the reaper: the
\* sockets are closed, the saver ends and the room's object is written
TwinStop(r) ==
    /\ room_copy[r] # None
    /\ TwinEngineSave(r)
    /\ room_timer' = [room_timer EXCEPT ![r] = FALSE]
    /\ room_copy' = [room_copy EXCEPT ![r] = None]
    /\ room_over' = [room_over EXCEPT ![r] = TRUE]
    /\ UNCHANGED room_edited
    /\ UNCHANGED notTwinVars

NextTwin ==
    \/ \E r \in EditRooms : EditEpisode(r)
    \/ \E r \in EditRooms, section \in Sections, value \in Values : TwinUpdate(r, section, value)
    \/ \E r \in EditRooms : TwinSave(r)
    \/ \E r \in EditRooms : TwinStop(r)

\* a draft that nobody has opened
InitTwin ==
    /\ draft_data = BlankDraft
    /\ room_copy = [r \in EditRooms |-> None]
    /\ room_timer = [r \in EditRooms |-> FALSE]
    /\ room_over = [r \in EditRooms |-> FALSE]
    /\ room_edited = [r \in EditRooms |-> {}]

(***************************************************************************)
(* One episode in the tables Episode and EpisodeVersion                    *)
(* (catbox/engine/engine.py): the title and description are a column of    *)
(* its Episode row, the content and the state are columns of the row of    *)
(* each version.  Version 1 is published; an owner edits a draft made of   *)
(* it.                                                                     *)
(***************************************************************************)
\* the row a select of Episode NATURAL JOIN EpisodeVersion gives for a version
JoinedRow(row_title, rows, version) ==
    [version |-> version, title |-> row_title, state |-> rows[version].state,
     data |-> rows[version].data]

\* GameEngine.get_episode_version(id, 0) for the owner who edits: the draft
\* is the last version, made of the one before it when that is no draft
ShelfOpenDraft ==
    /\ IsNone(held)
    /\ Len(version_rows) < MaxVersions
    /\ LET rows == IF version_rows[Len(version_rows)].state = DRAFT THEN version_rows
                   ELSE Append(version_rows,
                               [state |-> DRAFT, data |-> version_rows[Len(version_rows)].data])
       IN  /\ version_rows' = rows
           /\ held' = Some(JoinedRow(episode_title, rows, Len(rows)))
    /\ UNCHANGED <<episode_title, served>>
    /\ UNCHANGED notShelfVars

\* OnlyConnectEditEndpoint.set_meta on the object the room holds
ShelfSetMeta(value) ==
    /\ ~IsNone(held)
    /\ held' = Some([Get(held) EXCEPT !.title = value])
    /\ UNCHANGED <<episode_title, version_rows, served>>
    /\ UNCHANGED notShelfVars

\* OnlyConnectEditEndpoint.update on the object the room holds
ShelfUpdate(value) ==
    /\ ~IsNone(held)
    /\ held' = Some([Get(held) EXCEPT !.data = value])
    /\ UNCHANGED <<episode_title, version_rows, served>>
    /\ UNCHANGED notShelfVars

\* GameEngine.save: the Episode row gets the title and the description, the
\* row of the version gets the data if the version is a draft
ShelfEngineSave(object) ==
    /\ episode_title' = object.title
    /\ version_rows' = IF version_rows[object.version].state = DRAFT
                       THEN [version_rows EXCEPT ![object.version].data = object.data]
                       ELSE version_rows

\* the saver of the edit room, or its stop, saves the object the room holds
ShelfSave ==
    /\ ~IsNone(held)
    /\ ShelfEngineSave(Get(held))
    /\ UNCHANGED <<held, served>>
    /\ UNCHANGED notShelfVars

\* OnlyConnectEditRoom.submit: save_state moves the version the room holds
\* from the state it was loaded in to PENDING_REVIEW
ShelfSubmit ==
    /\ ~IsNone(held)
    /\ version_rows[Get(held).version].state = Get(held).state
    /\ version_rows' = [version_rows EXCEPT ![Get(held).version].state = PENDING_REVIEW]
    /\ held' = Some([Get(held) EXCEPT !.state = PENDING_REVIEW])
    /\ UNCHANGED <<episode_title, served>>
    /\ UNCHANGED notShelfVars

\* GameEngine.get_episode_version of the published version, for a player
ShelfLoadPublished(version) ==
    /\ version \in 1..Len(version_rows)
    /\ version_rows[version].state = PUBLISHED
    /\ served' = Some(JoinedRow(episode_title, version_rows, version))
    /\ UNCHANGED <<episode_title, version_rows, held>>
    /\ UNCHANGED notShelfVars

NextShelf ==
    \/ ShelfOpenDraft
    \/ \E value \in Values : ShelfSetMeta(value)
    \/ \E value \in Values : ShelfUpdate(value)
    \/ ShelfSave
    \/ ShelfSubmit
    \/ \E version \in 1..MaxVersions : ShelfLoadPublished(version)

\* an episode whose only version is published
InitShelf ==
    /\ episode_title = "t"
    /\ version_rows = <<[state |-> PUBLISHED, data |-> "t"]>>
    /\ held = None
    /\ served = None

(***************************************************************************)
(* This or That (catbox/games/this_or_that): the room of a game with two   *)
(* teams, their votes and scores, over an episode with one question of     *)
(* each category.                                                          *)
(***************************************************************************)
\* GameState
GAME_STARTING == "pre-game"
QUESTION == "question"
ANSWER == "answer"
GAME_ENDED == "post-game"   \* GameState.POST_GAME

\* Answer (the votes are the same enum)
NEITHER == "neither"
THIS == "this"
THAT == "that"
BOTH == "both"

Votes == {NEITHER, THIS, THAT, BOTH}

\* the questions of the episode: is_this and is_that of each
ThisOrThatQuestions ==
    << [is_this |-> TRUE, is_that |-> FALSE], [is_this |-> FALSE, is_that |-> TRUE],
       [is_this |-> TRUE, is_that |-> TRUE], [is_this |-> FALSE, is_that |-> FALSE] >>

ThisOrThatTeams == {"red", "blue"}

\* ThisOrThatQuestion.answer
QuestionAnswer(q) ==
    IF q.is_this THEN (IF q.is_that THEN BOTH ELSE THAT)
    ELSE IF q.is_that THEN THAT
    ELSE NEITHER

\* ThisOrThatRoom.question
RoomQuestion ==
    IF tot_state \in {GAME_STARTING, GAME_ENDED} THEN None
    ELSE Some(ThisOrThatQuestions[question_index + 1])

\* ThisOrThatEndpoint.vote of the game manager, who votes for any team:
\* ThisOrThatRoom.vote records it, whatever the state of the game
Vote(team, vote) ==
    /\ team_vote' = [team_vote EXCEPT ![team] = vote]
    /\ UNCHANGED <<tot_state, question_index, team_score>>
    /\ UNCHANGED notTotVars

\* ThisOrThatRoom.next_question
TotNextQuestion ==
    /\ IF tot_state \notin {GAME_STARTING, ANSWER}
       THEN UNCHANGED <<tot_state, question_index, team_vote>>
       ELSE /\ question_index' = question_index + 1
            /\ IF question_index + 1 = Len(ThisOrThatQuestions)
               THEN /\ tot_state' = GAME_ENDED
                    /\ UNCHANGED team_vote
               ELSE /\ tot_state' = QUESTION
                    /\ team_vote' = [t \in ThisOrThatTeams |-> None]
    /\ UNCHANGED team_score
    /\ UNCHANGED notTotVars

\* ThisOrThatRoom.reveal_answer
RevealAnswer ==
    /\ IF tot_state # QUESTION
       THEN UNCHANGED <<tot_state, team_score>>
       ELSE LET correct == IF IsNone(RoomQuestion) THEN None
                           ELSE Some(QuestionAnswer(Get(RoomQuestion)))
            IN  /\ team_score' = [t \in ThisOrThatTeams |->
                                     IF team_vote[t] = correct THEN team_score[t] + 1
                                     ELSE team_score[t]]
                /\ tot_state' = ANSWER
    /\ UNCHANGED <<question_index, team_vote>>
    /\ UNCHANGED notTotVars

NextTot ==
    \/ \E team \in ThisOrThatTeams, vote \in Votes : Vote(team, Some(vote))
    \/ \E team \in ThisOrThatTeams : Vote(team, None)
    \/ TotNextQuestion
    \/ RevealAnswer

\* ThisOrThatRoom.__init__ with scoring and two teams
InitTot ==
    /\ tot_state = GAME_STARTING
    /\ question_index = -1
    /\ team_vote = [t \in ThisOrThatTeams |-> None]
    /\ team_score = [t \in ThisOrThatTeams |-> 0]

\* the parts that the play room's specifications do not move
NotPlayInit == InitRuntime /\ InitSite /\ InitEdit /\ InitEngine /\ InitStore /\ InitPresence /\ InitTwin /\ InitShelf /\ InitTot

(***************************************************************************)
(* RoundTracker, InRoundState, PossibleActions                             *)
(***************************************************************************)
PRE_GAME == "pre-game"
CONNECTIONS == "connections"
COMPLETIONS == "completions"
CONNECTING_WALLS == "connecting_walls"
MISSING_VOWELS == "missing_vowels"
POST_GAME == "post-game"

RoundTracker == <<PRE_GAME, CONNECTIONS, COMPLETIONS, CONNECTING_WALLS, MISSING_VOWELS, POST_GAME>>

\* a next() that steps over one member
RoundNextSkipsOne(r) ==
    IF r = POST_GAME THEN POST_GAME
    ELSE LET loc == IndexOf(RoundTracker, r)
         IN  IF loc + 3 <= Len(RoundTracker) THEN RoundTracker[loc + 3] ELSE POST_GAME

\* RoundTracker.next
RoundNext(r) ==
    IF r = POST_GAME THEN POST_GAME
    ELSE LET loc == IndexOf(RoundTracker, r) IN RoundTracker[(loc + 1) + 1]

PRE_ROUND == "pre-round"
QUESTION_SELECTION == "select"
QUESTION_ACTIVE == "question"
LOCKED_IN == "locked-in"
STEALING == "stealing"
ANSWER_REVEALED == "answer"
POST_ROUND == "post-round"

NEXT_QUESTION == "NEXT_QUESTION"
SELECT_TWO_REEDS == "SELECT_TWO_REEDS"
SELECT_LION == "SELECT_LION"
SELECT_TWISTED_FLAX == "SELECT_TWISTED_FLAX"
SELECT_HORNED_VIPER == "SELECT_HORNED_VIPER"
SELECT_WATER == "SELECT_WATER"
SELECT_EYE_OF_HORUS == "SELECT_EYE_OF_HORUS"
NEXT_CLUE == "NEXT_CLUE"
LOCK_IN == "LOCK_IN"
REVEAL_FOR_STEAL == "REVEAL_FOR_STEAL"
SCORE_TEAM1 == "SCORE_TEAM1"
SCORE_TEAM2 == "SCORE_TEAM2"
SCORE_STEAL == "SCORE_STEAL"
SCORE_INCORRECT == "SCORE_INCORRECT"
START_NEXT_ROUND == "START_NEXT_ROUND"

SelectTokens == <<SELECT_TWO_REEDS, SELECT_LION, SELECT_TWISTED_FLAX,
                  SELECT_HORNED_VIPER, SELECT_WATER, SELECT_EYE_OF_HORUS>>

\* the actions RoundHandler.do dispatches
DoActions == {NEXT_QUESTION, NEXT_CLUE, LOCK_IN, REVEAL_FOR_STEAL, SCORE_TEAM1,
              SCORE_TEAM2, SCORE_STEAL, SCORE_INCORRECT} \cup Range(SelectTokens)

PossibleActions == DoActions \cup {START_NEXT_ROUND}

(***************************************************************************)
(* Episode content (episode.py)                                            *)
(***************************************************************************)
\* OnlyConnectQuestion.__init__: the texts of question qid are distinct numbers
Question(qid) ==
    [question_type |-> "text", connection |-> 100 + qid, details |-> 200 + qid,
     elements |-> <<10 * qid + 1, 10 * qid + 2, 10 * qid + 3, 10 * qid + 4>>]

\* OnlyConnectQuestion.default: every text empty
DefaultQuestion ==
    [question_type |-> "text", connection |-> 0, details |-> 0, elements |-> <<0, 0, 0, 0>>]

\* OnlyConnectQuestion.valid
QuestionValid(q) ==
    /\ q.connection # 0
    /\ Len(q.elements) = SLOTS_PER_CONNECTION
    /\ \A i \in 1..Len(q.elements) : q.elements[i] # 0

\* SixQuestions.valid
SixValid(six) == \A i \in 1..Len(six) : QuestionValid(six[i])

\* ConnectingWall.valid
WallValid(wall) == \A i \in 1..Len(wall) : QuestionValid(wall[i])

RECURSIVE Concat(_)
Concat(ss) == IF ss = <<>> THEN <<>> ELSE Head(ss) \o Concat(Tail(ss))

\* ConnectingWall.clues
WallClues(wall) == Concat([i \in 1..Len(wall) |-> wall[i].elements])

\* str.upper on the characters the model uses
Upper(c) ==
    CASE c = "a" -> "A" [] c = "e" -> "E" [] c = "c" -> "C" [] c = "t" -> "T"
      [] OTHER -> c

UpperStr(str) == [i \in 1..Len(str) |-> Upper(str[i])]

RECURSIVE Strip(_, _)
Strip(str, chars) ==
    IF str = <<>> THEN <<>>
    ELSE IF Head(str) \in chars THEN Strip(Tail(str), chars)
         ELSE <<Head(str)>> \o Strip(Tail(str), chars)

\* VOWELS_AND_SPACES
VowelsAndSpaces == {" ", "A", "E", "I", "O", "U"}

\* MissingVowelsGroup.check_valid
CheckValid(prompt, answer) ==
    Strip(UpperStr(prompt), {" "}) = Strip(UpperStr(answer), VowelsAndSpaces)

RECURSIVE SelectPairs(_)
SelectPairs(words) ==
    IF words = <<>> THEN <<>>
    ELSE IF CheckValid(Head(words)[2], Head(words)[1])
         THEN <<Head(words)>> \o SelectPairs(Tail(words))
         ELSE SelectPairs(Tail(words))

\* MissingVowelsGroup.valid_pairs, as the list its consumers make of it
ValidPairs(group) == SelectPairs(group.words)

\* MissingVowelsGroup.valid
GroupValid(group) ==
    \E i \in 1..Len(group.words) : CheckValid(group.words[i][2], group.words[i][1])

\* OnlyConnectEpisode.has_connections_round
HasConnectionsRound(ep) ==
    /\ ~IsNone(ep.connections_round)
    /\ SixValid(Get(ep.connections_round))

\* OnlyConnectEpisode.has_completions_round
HasCompletionsRound(ep) ==
    /\ ~IsNone(ep.completions_round)
    /\ SixValid(Get(ep.completions_round))

\* OnlyConnectEpisode.has_missing_vowels
HasMissingVowels(ep) ==
    /\ ~IsNone(ep.missing_vowels)
    /\ \E i \in 1..Len(Get(ep.missing_vowels)) : GroupValid(Get(ep.missing_vowels)[i])

\* OnlyConnectEpisode.has_connecting_walls
HasConnectingWalls(ep, nteams) ==
    IF IsNone(ep.connecting_walls) \/ ~WallValid(Get(ep.connecting_walls)[1])
    THEN FALSE
    ELSE (nteams = 1) \/ WallValid(Get(ep.connecting_walls)[2])


(***************************************************************************)
(* What a handler call gives back: whether it returned true, whether it    *)
(* raised, and the handler and the team scores it leaves behind.            *)
(***************************************************************************)
Returned(ok, h, t) == [ok |-> ok, raised |-> FALSE, h |-> h, teams |-> t]
Raises(h, t) == [ok |-> FALSE, raised |-> TRUE, h |-> h, teams |-> t]

\* room.teams[team].score += n, for a 0-based team
AddScore(t, team, n) == [t EXCEPT ![team + 1] = @ + n]

(***************************************************************************)
(* StandardRoundState (Connections and Completions)                        *)
(***************************************************************************)
\* an __init__ that lets a Completions round reveal all four clues
NewStandardRoundStateNoCap(t, round, data) ==
    [kind |-> "standard",
     state |-> PRE_ROUND,
     data |-> data,
     available |-> [i \in 1..Len(SelectTokens) |-> Some(SelectTokens[i])],
     active_team |-> IF round = COMPLETIONS THEN 0 ELSE IF Len(t) = 1 THEN 0 ELSE 1,
     current_question |-> data[1],
     revealed_clues |-> 0,
     max_revealed |-> SLOTS_PER_CONNECTION]

\* StandardRoundState.__init__ (room.current_round is already the new round)
NewStandardRoundState(t, round, data) ==
    [kind |-> "standard",
     state |-> PRE_ROUND,
     data |-> data,
     available |-> [i \in 1..Len(SelectTokens) |-> Some(SelectTokens[i])],
     active_team |-> IF round = COMPLETIONS THEN 0 ELSE IF Len(t) = 1 THEN 0 ELSE 1,
     current_question |-> data[1],
     revealed_clues |-> 0,
     max_revealed |-> IF round = COMPLETIONS THEN SLOTS_PER_CONNECTION - 1
                      ELSE SLOTS_PER_CONNECTION]

NoCurrent == [shown |-> FALSE, full |-> FALSE, question_type |-> "", revealed |-> 0,
              elements |-> <<>>, connection |-> 0, details |-> 0]

\* StandardRoundState.public_state; "available" is <<>> and "current" is
\* NoCurrent where the code leaves the key out; a host-only key the public
\* view lacks is 0
StdPublicState(h, t) ==
    LET base == [state |-> h.state, active_team |-> t[h.active_team + 1],
                 available |-> <<>>, current |-> NoCurrent]
        q == h.current_question
    IN  IF h.state \in {PRE_ROUND, POST_ROUND} THEN base
        ELSE IF h.state = QUESTION_SELECTION THEN [base EXCEPT !.available = h.available]
        ELSE IF h.state = ANSWER_REVEALED
        THEN [base EXCEPT !.current =
                 [shown |-> TRUE, full |-> TRUE, question_type |-> q.question_type,
                  revealed |-> Len(q.elements), elements |-> q.elements,
                  connection |-> q.connection, details |-> q.details]]
        ELSE IF h.state = STEALING /\ h.max_revealed < Len(q.elements)
        THEN [base EXCEPT !.current =
                 [NoCurrent EXCEPT !.shown = TRUE, !.question_type = q.question_type,
                                   !.revealed = Len(q.elements),
                                   !.elements = SubSeq(q.elements, 1, h.revealed_clues) \o <<-1>>]]
        ELSE [base EXCEPT !.current =
                 [NoCurrent EXCEPT !.shown = TRUE, !.question_type = q.question_type,
                                   !.revealed = h.revealed_clues,
                                   !.elements = SubSeq(q.elements, 1, h.revealed_clues)]]

\* StandardRoundState.admin_state
StdAdminState(h, t) ==
    LET state == StdPublicState(h, t)
        q == h.current_question
        current == state.current
        extended == current.elements \o
                    [i \in 1..(SLOTS_PER_CONNECTION - Len(current.elements)) |-> 0]
    IN  IF ~current.shown THEN state
        ELSE [state EXCEPT !.current =
                 [current EXCEPT !.connection = q.connection, !.details = q.details,
                                 !.elements = IF h.max_revealed < SLOTS_PER_CONNECTION
                                              THEN [extended EXCEPT ![h.max_revealed + 1] =
                                                                    q.elements[h.max_revealed + 1]]
                                              ELSE current.elements]]

\* StandardRoundState.possible_actions
StdPossibleActions(h, t) ==
    CASE h.state = PRE_ROUND -> {NEXT_QUESTION}
      [] h.state = QUESTION_SELECTION -> {}
      [] h.state = QUESTION_ACTIVE -> {LOCK_IN, NEXT_CLUE}
      [] h.state = STEALING -> {SCORE_STEAL, SCORE_INCORRECT}
      [] h.state = ANSWER_REVEALED -> {NEXT_QUESTION}
      [] h.state = POST_ROUND -> {START_NEXT_ROUND}
      [] OTHER -> IF Len(t) = 1 THEN {SCORE_TEAM1, SCORE_INCORRECT}
                  ELSE {IF h.active_team = 0 THEN SCORE_TEAM1 ELSE SCORE_TEAM2,
                        REVEAL_FOR_STEAL}

\* a next_question that leaves the active team as it is
StdNextQuestionSameTeam(h, t) ==
    IF h.state \notin {PRE_ROUND, ANSWER_REVEALED} THEN Returned(FALSE, h, t)
    ELSE IF \A i \in 1..Len(h.available) : IsNone(h.available[i])
    THEN Returned(TRUE, [h EXCEPT !.state = POST_ROUND], t)
    ELSE Returned(TRUE, [h EXCEPT !.state = QUESTION_SELECTION], t)

\* StandardRoundState.next_question
StdNextQuestion(h, t) ==
    IF h.state \notin {PRE_ROUND, ANSWER_REVEALED} THEN Returned(FALSE, h, t)
    ELSE IF \A i \in 1..Len(h.available) : IsNone(h.available[i])
    THEN Returned(TRUE, [h EXCEPT !.state = POST_ROUND], t)
    ELSE Returned(TRUE,
                  [h EXCEPT !.active_team = IF Len(t) # 1 THEN (IF @ = 0 THEN 1 ELSE 0) ELSE @,
                            !.state = QUESTION_SELECTION], t)

\* StandardRoundState.select
StdSelect(h, t, question) ==
    IF h.state # QUESTION_SELECTION THEN Returned(FALSE, h, t)
    ELSE IF Some(question) \notin Range(h.available) THEN Returned(FALSE, h, t)
    ELSE LET index == IndexOf(h.available, Some(question))
         IN  Returned(TRUE,
                      [h EXCEPT !.state = QUESTION_ACTIVE,
                                !.current_question = h.data[index + 1],
                                !.revealed_clues = 1,
                                !.available = [@ EXCEPT ![index + 1] = None]], t)

\* StandardRoundState.next_clue
StdNextClue(h, t) ==
    IF h.state # QUESTION_ACTIVE THEN Returned(FALSE, h, t)
    ELSE IF h.revealed_clues >= h.max_revealed THEN Returned(FALSE, h, t)
    ELSE Returned(TRUE,
                  [h EXCEPT !.revealed_clues = @ + 1,
                            !.state = IF h.revealed_clues + 1 = h.max_revealed
                                      THEN LOCKED_IN ELSE @], t)

\* StandardRoundState.lock_in
StdLockIn(h, t) ==
    IF h.state # QUESTION_ACTIVE THEN Returned(FALSE, h, t)
    ELSE Returned(TRUE, [h EXCEPT !.state = LOCKED_IN], t)

\* a ladder that pays one point whatever the number of clues
ScoreLadderFlat == <<0, 1, 1, 1, 1>>

\* the list [0, 5, 3, 2, 1] of StandardRoundState.score
ScoreLadder == <<0, 5, 3, 2, 1>>

\* StandardRoundState.score (score_team1 is score(0), score_team2 is score(1))
StdScore(h, t, team) ==
    IF h.state # LOCKED_IN THEN Returned(FALSE, h, t)
    ELSE IF team + 1 > Len(t) THEN Raises(h, t)
    ELSE Returned(TRUE,
                  [h EXCEPT !.state = ANSWER_REVEALED, !.revealed_clues = SLOTS_PER_CONNECTION],
                  AddScore(t, team, ScoreLadder[h.revealed_clues + 1]))

\* StandardRoundState.score_steal
StdScoreSteal(h, t) ==
    IF h.state # STEALING THEN Returned(FALSE, h, t)
    ELSE IF (1 - h.active_team) + 1 > Len(t) THEN Raises(h, t)
    ELSE Returned(TRUE,
                  [h EXCEPT !.state = ANSWER_REVEALED, !.revealed_clues = SLOTS_PER_CONNECTION],
                  AddScore(t, 1 - h.active_team, 1))

\* StandardRoundState.score_incorrect
StdScoreIncorrect(h, t) ==
    IF h.state \notin {LOCKED_IN, STEALING} THEN Returned(FALSE, h, t)
    ELSE Returned(TRUE,
                  [h EXCEPT !.state = ANSWER_REVEALED, !.revealed_clues = SLOTS_PER_CONNECTION], t)

\* StandardRoundState.reveal_for_steal
StdRevealForSteal(h, t) ==
    Returned(TRUE, [h EXCEPT !.revealed_clues = h.max_revealed, !.state = STEALING], t)

\* RoundHandler.do on a StandardRoundState
StdDo(h, t, choice) ==
    CASE choice = NEXT_QUESTION -> StdNextQuestion(h, t)
      [] choice \in Range(SelectTokens) -> StdSelect(h, t, choice)
      [] choice = NEXT_CLUE -> StdNextClue(h, t)
      [] choice = LOCK_IN -> StdLockIn(h, t)
      [] choice = REVEAL_FOR_STEAL -> StdRevealForSteal(h, t)
      [] choice = SCORE_TEAM1 -> StdScore(h, t, 0)
      [] choice = SCORE_TEAM2 -> StdScore(h, t, 1)
      [] choice = SCORE_STEAL -> StdScoreSteal(h, t)
      [] choice = SCORE_INCORRECT -> StdScoreIncorrect(h, t)
      [] OTHER -> Returned(FALSE, h, t)

(***************************************************************************)
(* MissingVowelsState                                                      *)
(***************************************************************************)
\* the filter of MissingVowelsState.__init__, "if group.valid_pairs": the
\* property returns a generator object, which is true whatever it would yield
KeepsGroup(group) == TRUE

RECURSIVE FilterGroups(_)
FilterGroups(groups) ==
    IF groups = <<>> THEN <<>>
    ELSE IF KeepsGroup(Head(groups)) THEN <<Head(groups)>> \o FilterGroups(Tail(groups))
         ELSE FilterGroups(Tail(groups))

\* MissingVowelsState.__init__ (group_index and question_index are the class's -1)
NewMissingVowelsState(questions) ==
    [kind |-> "vowels",
     state |-> PRE_ROUND,
     questions |-> FilterGroups(questions),
     current_group |-> <<>>,
     group_index |-> -1,
     question_index |-> -1]

\* MissingVowelsState.possible_actions
MvPossibleActions(h) ==
    IF h.state = QUESTION_ACTIVE THEN {SCORE_TEAM1, SCORE_TEAM2, SCORE_INCORRECT}
    ELSE IF h.state = POST_ROUND THEN {START_NEXT_ROUND}
    ELSE {NEXT_QUESTION}

\* MissingVowelsState.next_group
RECURSIVE MvNextGroup(_)
MvNextGroup(h) ==
    LET h1 == [h EXCEPT !.group_index = @ + 1]
    IN  IF h1.group_index >= Len(h1.questions) THEN [h1 EXCEPT !.state = POST_ROUND]
        ELSE LET h2 == [h1 EXCEPT !.current_group = ValidPairs(h1.questions[h1.group_index + 1])]
                 h3 == IF h2.current_group = <<>> THEN MvNextGroup(h2) ELSE h2
             IN  [h3 EXCEPT !.question_index = 0, !.state = QUESTION_ACTIVE]

\* MissingVowelsState.next_question
MvNextQuestion(h, t) ==
    IF h.state = PRE_ROUND THEN Returned(TRUE, MvNextGroup(h), t)
    ELSE IF h.state # ANSWER_REVEALED THEN Returned(FALSE, h, t)
    ELSE LET h1 == [h EXCEPT !.question_index = @ + 1, !.state = QUESTION_ACTIVE]
         IN  Returned(TRUE,
                      IF h1.question_index >= Len(h1.current_group) THEN MvNextGroup(h1) ELSE h1,
                      t)

\* MissingVowelsState.score_team1, score_team2 (team is 0 or 1)
MvScoreTeam(h, t, team) ==
    IF h.state # QUESTION_ACTIVE THEN Returned(FALSE, h, t)
    ELSE IF team + 1 > Len(t) THEN Raises(h, t)
    ELSE Returned(TRUE, [h EXCEPT !.state = ANSWER_REVEALED], AddScore(t, team, 1))

\* MissingVowelsState.score_incorrect
MvScoreIncorrect(h, t) ==
    IF h.state # QUESTION_ACTIVE THEN Returned(FALSE, h, t)
    ELSE Returned(TRUE, [h EXCEPT !.state = ANSWER_REVEALED], t)

\* RoundHandler.do on a MissingVowelsState
MvDo(h, t, choice) ==
    CASE choice = NEXT_QUESTION -> MvNextQuestion(h, t)
      [] choice = SCORE_TEAM1 -> MvScoreTeam(h, t, 0)
      [] choice = SCORE_TEAM2 -> MvScoreTeam(h, t, 1)
      [] choice = SCORE_INCORRECT -> MvScoreIncorrect(h, t)
      [] OTHER -> Returned(FALSE, h, t)

\* MissingVowelsState.active_question, were it to show the answer throughout
MvActiveQuestionAnswered(h) ==
    LET blank == [raised |-> FALSE, shown |-> FALSE, connection |-> 0, text |-> <<>>]
        inRange == /\ h.group_index + 1 \in 1..Len(h.questions)
                   /\ h.question_index + 1 \in 1..Len(h.current_group)
    IN  IF h.state \notin {QUESTION_ACTIVE, ANSWER_REVEALED} THEN blank
        ELSE IF ~inRange THEN [blank EXCEPT !.raised = TRUE]
        ELSE [blank EXCEPT !.shown = TRUE,
                           !.connection = h.questions[h.group_index + 1].connection,
                           !.text = h.current_group[h.question_index + 1][1]]

\* MissingVowelsState.active_question: the question shown to every endpoint.
\* "raised" is the IndexError of a pointer past its list.
MvActiveQuestion(h) ==
    LET blank == [raised |-> FALSE, shown |-> FALSE, connection |-> 0, text |-> <<>>]
        inRange == /\ h.group_index + 1 \in 1..Len(h.questions)
                   /\ h.question_index + 1 \in 1..Len(h.current_group)
    IN  IF h.state \notin {QUESTION_ACTIVE, ANSWER_REVEALED} THEN blank
        ELSE IF ~inRange THEN [blank EXCEPT !.raised = TRUE]
        ELSE [blank EXCEPT !.shown = TRUE,
                           !.connection = h.questions[h.group_index + 1].connection,
                           !.text = IF h.state = QUESTION_ACTIVE
                                    THEN h.current_group[h.question_index + 1][2]
                                    ELSE h.current_group[h.question_index + 1][1]]

(***************************************************************************)
(* ActiveWall                                                              *)
(***************************************************************************)
\* random.shuffle(words): the order a shuffle (a permutation of positions) gives
Shuffled(words, shuffle) == [i \in 1..Len(words) |-> words[shuffle[i]]]

\* ActiveWall.__init__
NewActiveWall(wall, shuffle) ==
    [wall |-> wall,
     ungrouped |-> Shuffled(WallClues(wall), shuffle),
     grouped |-> <<>>,
     not_found |-> <<>>,
     selected |-> <<>>,
     strikes |-> None,
     groups |-> <<>>,
     confirming_group |-> None,
     is_group_revealed |-> TRUE]

Max(S) == CHOOSE x \in S : \A y \in S : y <= x

\* "for index in sorted(self.selected, reverse=True): self.ungrouped.pop(index)"
RECURSIVE PopAll(_, _)
PopAll(s, indices) ==
    IF indices = {} THEN s
    ELSE PopAll(PopAt(s, Max(indices)), indices \ {Max(indices)})

\* the first group (1-based) of the wall that holds every one of the words, 0 if none
MatchingGroup(wall, words) ==
    LET hits == {g \in 1..Len(wall) : \A i \in 1..Len(words) : words[i] \in Range(wall[g].elements)}
    IN  IF hits = {} THEN 0 ELSE CHOOSE g \in hits : \A k \in hits : g <= k

\* ActiveWall._check_match_group; "overflow" is its OverflowError
CheckMatchGroup(aw, words) ==
    LET g == MatchingGroup(aw.wall, words)
    IN  IF g # 0
        THEN LET left == PopAll(aw.ungrouped, Range(aw.selected))
             IN  [aw |-> [aw EXCEPT !.ungrouped = left,
                                    !.grouped = @ \o aw.wall[g].elements,
                                    !.groups = Append(@, aw.wall[g]),
                                    !.strikes = IF Len(left) = 2 * SLOTS_PER_CONNECTION
                                                THEN Some(INITIAL_STRIKES) ELSE @],
                  overflow |-> Len(left) = 0]
        ELSE IF ~IsNone(aw.strikes)
        THEN [aw |-> [aw EXCEPT !.strikes = Some(Get(@) - 1)],
              overflow |-> Get(aw.strikes) - 1 <= 0]
        ELSE [aw |-> aw, overflow |-> FALSE]

\* ActiveWall.toggle up to its first yield.  "then" is what the generator does
\* next: "return" (it ended without a yield), "yield_return" (it yields and
\* then ends) or "yield_check" (it yields and then checks the selection).
ToggleStart(aw, word) ==
    LET index == IndexOf(aw.ungrouped, word)
    IN  IF index = -1 THEN [aw |-> aw, then |-> "return"]
        ELSE IF index \in Range(aw.selected)
        THEN [aw |-> [aw EXCEPT !.selected = RemoveFirst(@, index)], then |-> "yield_return"]
        ELSE [aw |-> [aw EXCEPT !.selected = Append(@, index)], then |-> "yield_check"]

\* ActiveWall.toggle after its first yield.  "then" is "return" (fewer or
\* more than four are selected), "raise" (an IndexError: a selected index is
\* past the end of ungrouped), "overflow" (OverflowError, the selection is
\* kept) or "yield_return".
ToggleCheck(aw) ==
    IF Len(aw.selected) # SLOTS_PER_CONNECTION THEN [aw |-> aw, then |-> "return"]
    ELSE IF \E i \in 1..Len(aw.selected) : aw.selected[i] >= Len(aw.ungrouped)
    THEN [aw |-> aw, then |-> "raise"]
    ELSE LET selected_words == [i \in 1..Len(aw.selected) |-> aw.ungrouped[aw.selected[i] + 1]]
             r == CheckMatchGroup(aw, selected_words)
         IN  IF r.overflow THEN [aw |-> r.aw, then |-> "overflow"]
             ELSE [aw |-> [r.aw EXCEPT !.selected = <<>>], then |-> "yield_return"]

\* "for element in group.elements: self.ungrouped.remove(element)"; "raised"
\* is the ValueError of removing an element that is not there
RECURSIVE RemoveElements(_, _)
RemoveElements(aw, elements) ==
    IF elements = <<>> THEN [aw |-> aw, raised |-> FALSE]
    ELSE IF Head(elements) \notin Range(aw.ungrouped) THEN [aw |-> aw, raised |-> TRUE]
    ELSE RemoveElements([aw EXCEPT !.ungrouped = RemoveFirst(@, Head(elements))], Tail(elements))

\* "for group in self.wall", from the g-th group on, for one group_on
RECURSIVE RevealGroups(_, _, _)
RevealGroups(aw, group_on, g) ==
    IF g > Len(aw.wall) THEN [aw |-> aw, raised |-> FALSE]
    ELSE IF group_on \notin Range(aw.wall[g].elements) THEN RevealGroups(aw, group_on, g + 1)
    ELSE LET r == RemoveElements([aw EXCEPT !.not_found = @ \o aw.wall[g].elements,
                                            !.groups = Append(@, aw.wall[g])],
                                 aw.wall[g].elements)
         IN  IF r.raised THEN r ELSE RevealGroups(r.aw, group_on, g + 1)

\* "while self.ungrouped"
RECURSIVE RevealLoop(_)
RevealLoop(aw) ==
    IF aw.ungrouped = <<>> THEN [aw |-> aw, raised |-> FALSE]
    ELSE LET r == RevealGroups(aw, aw.ungrouped[1], 1)
         IN  IF r.raised THEN r ELSE RevealLoop(r.aw)

\* ActiveWall.reveal_wall
RevealWall(aw) == RevealLoop([aw EXCEPT !.strikes = None])

\* ActiveWall.start_confirm_next_group
StartConfirmNextGroup(aw) ==
    [aw EXCEPT !.confirming_group = Some((IF IsNone(@) THEN -1 ELSE Get(@)) + 1),
               !.is_group_revealed = FALSE]

(***************************************************************************)
(* ConnectingWallState                                                     *)
(***************************************************************************)
\* ConnectingWallState.__init__
NewConnectingWallState(t, walls) ==
    [kind |-> "wall",
     state |-> PRE_ROUND,
     available_walls |-> <<Some(walls[1]), Some(walls[2])>>,
     active_wall |-> None,
     active_team |-> IF Len(t) > 1 /\ t[2] > t[1] THEN 1 ELSE 0]

\* ConnectingWallState.possible_actions
WallPossibleActions(h) ==
    CASE h.state = PRE_ROUND -> {NEXT_QUESTION}
      [] h.state = QUESTION_SELECTION -> {}
      [] h.state = POST_ROUND -> {START_NEXT_ROUND}
      [] OTHER ->
           IF h.state # LOCKED_IN /\ ~IsNone(h.active_wall) THEN {LOCK_IN}
           ELSE IF /\ ~IsNone(h.active_wall)
                   /\ Get(h.active_wall).confirming_group = Some(SLOTS_PER_CONNECTION - 1)
                   /\ Get(h.active_wall).is_group_revealed
           THEN {NEXT_QUESTION}
           ELSE IF ~IsNone(h.active_wall) /\ Get(h.active_wall).is_group_revealed
           THEN {REVEAL_FOR_STEAL}
           ELSE {IF h.active_team = 0 THEN SCORE_TEAM1 ELSE SCORE_TEAM2, SCORE_INCORRECT}

\* ConnectingWallState.select_lion (which = 1) and select_water (which = 2)
WallSelect(h, t, which, shuffle) ==
    IF h.state # QUESTION_SELECTION THEN Returned(FALSE, h, t)
    ELSE IF IsNone(h.available_walls[which]) THEN Returned(FALSE, h, t)
    ELSE Returned(TRUE,
                  [h EXCEPT !.active_wall = Some(NewActiveWall(Get(h.available_walls[which]), shuffle)),
                            !.available_walls = [@ EXCEPT ![which] = None],
                            !.state = QUESTION_ACTIVE], t)

\* ConnectingWallState.next_question; comparing a confirming_group of None
\* with a number raises TypeError
WallNextQuestion(h, t) ==
    IF h.state = PRE_ROUND THEN Returned(TRUE, [h EXCEPT !.state = QUESTION_SELECTION], t)
    ELSE IF h.state # LOCKED_IN THEN Returned(FALSE, h, t)
    ELSE IF IsNone(Get(h.active_wall).confirming_group) THEN Raises(h, t)
    ELSE IF Get(Get(h.active_wall).confirming_group) < SLOTS_PER_CONNECTION - 1
    THEN Returned(FALSE, h, t)
    ELSE IF Len(t) = 1 \/ \A i \in 1..Len(h.available_walls) : IsNone(h.available_walls[i])
    THEN Returned(TRUE, [h EXCEPT !.state = POST_ROUND], t)
    ELSE Returned(TRUE, [h EXCEPT !.state = QUESTION_SELECTION,
                                  !.active_team = IF @ # 0 THEN 0 ELSE 1], t)

\* ConnectingWallState.lock_in; when reveal_wall raises, the score has been
\* added and the wall is left as reveal_wall got it, in QUESTION_ACTIVE
WallLockIn(h, t) ==
    IF h.state # QUESTION_ACTIVE THEN Returned(FALSE, h, t)
    ELSE IF IsNone(h.active_wall) THEN Returned(FALSE, h, t)
    ELSE LET score == Len(Get(h.active_wall).grouped) \div 4
             t1 == AddScore(t, h.active_team, score)
             r == RevealWall(Get(h.active_wall))
         IN  IF r.raised THEN Raises([h EXCEPT !.active_wall = Some(r.aw)], t1)
             ELSE Returned(TRUE, [h EXCEPT !.active_wall = Some(r.aw), !.state = LOCKED_IN], t1)

\* ConnectingWallState.reveal_for_steal
WallRevealForSteal(h, t) ==
    IF h.state # LOCKED_IN \/ IsNone(h.active_wall) THEN Returned(FALSE, h, t)
    ELSE Returned(TRUE, [h EXCEPT !.active_wall = Some(StartConfirmNextGroup(Get(@)))], t)

\* the guard shared by score_team1, score_team2 and score_incorrect
WallNotConfirming(h) ==
    \/ h.state # LOCKED_IN
    \/ IsNone(h.active_wall)
    \/ IsNone(Get(h.active_wall).confirming_group)
    \/ Get(h.active_wall).is_group_revealed

\* ConnectingWallState.score_team1, score_team2 (team is 0 or 1)
WallScoreTeam(h, t, team) ==
    IF WallNotConfirming(h) THEN Returned(FALSE, h, t)
    ELSE IF team + 1 > Len(t) THEN Raises(h, t)
    ELSE Returned(TRUE,
                  [h EXCEPT !.active_wall = Some([Get(@) EXCEPT !.is_group_revealed = TRUE])],
                  AddScore(t, team, 1))

\* ConnectingWallState.score_incorrect
WallScoreIncorrect(h, t) ==
    IF WallNotConfirming(h) THEN Returned(FALSE, h, t)
    ELSE Returned(TRUE,
                  [h EXCEPT !.active_wall = Some([Get(@) EXCEPT !.is_group_revealed = TRUE])], t)

\* RoundHandler.do on a ConnectingWallState; shuffle is the order
\* random.shuffle gives a wall that is selected
WallDo(h, t, choice, shuffle) ==
    CASE choice = NEXT_QUESTION -> WallNextQuestion(h, t)
      [] choice = SELECT_LION -> WallSelect(h, t, 1, shuffle)
      [] choice = SELECT_WATER -> WallSelect(h, t, 2, shuffle)
      [] choice = LOCK_IN -> WallLockIn(h, t)
      [] choice = REVEAL_FOR_STEAL -> WallRevealForSteal(h, t)
      [] choice = SCORE_TEAM1 -> WallScoreTeam(h, t, 0)
      [] choice = SCORE_TEAM2 -> WallScoreTeam(h, t, 1)
      [] choice = SCORE_INCORRECT -> WallScoreIncorrect(h, t)
      [] OTHER -> Returned(FALSE, h, t)

(***************************************************************************)
(* OnlyConnectRoom                                                         *)
(***************************************************************************)
NoHandler == [kind |-> "none"]

\* OnlyConnectRoom.start_round: whether it installed new_round, and the
\* current_round and current_state it leaves
StartRound(ep, t, cur_round, cur_state, new_round) ==
    IF new_round = CONNECTIONS /\ HasConnectionsRound(ep)
    THEN [ok |-> TRUE, round |-> new_round,
          state |-> NewStandardRoundState(t, new_round, Get(ep.connections_round))]
    ELSE IF new_round = COMPLETIONS /\ HasCompletionsRound(ep)
    THEN [ok |-> TRUE, round |-> new_round,
          state |-> NewStandardRoundState(t, new_round, Get(ep.completions_round))]
    ELSE IF new_round = CONNECTING_WALLS /\ HasConnectingWalls(ep, Len(t))
    THEN [ok |-> TRUE, round |-> new_round,
          state |-> NewConnectingWallState(t, Get(ep.connecting_walls))]
    ELSE IF new_round = MISSING_VOWELS /\ HasMissingVowels(ep)
    THEN [ok |-> TRUE, round |-> new_round,
          state |-> NewMissingVowelsState(Get(ep.missing_vowels))]
    ELSE IF new_round \in {PRE_GAME, GAME_ENDED}
    THEN [ok |-> TRUE, round |-> new_round, state |-> NoHandler]
    ELSE [ok |-> FALSE, round |-> cur_round, state |-> cur_state]

\* the loop of OnlyConnectRoom.next_round, new_round being the round tried
\* last and walked the number of rounds tried so far
RECURSIVE NextRoundLoop(_, _, _, _, _, _)
NextRoundLoop(ep, t, cur_round, cur_state, new_round, walked) ==
    LET r == StartRound(ep, t, cur_round, cur_state, RoundNext(new_round))
    IN  IF r.ok THEN [round |-> r.round, state |-> r.state, walked |-> walked + 1]
        ELSE NextRoundLoop(ep, t, cur_round, cur_state, RoundNext(new_round), walked + 1)

\* OnlyConnectRoom.next_round
NextRound(ep, t, cur_round, cur_state) ==
    NextRoundLoop(ep, t, cur_round, cur_state, cur_round, 0)

\* RoundHandler.do on the room's handler, whichever it is
RoundDo(h, t, choice, shuffle) ==
    CASE h.kind = "standard" -> StdDo(h, t, choice)
      [] h.kind = "vowels" -> MvDo(h, t, choice)
      [] h.kind = "wall" -> WallDo(h, t, choice, shuffle)

\* possible_actions of the room's handler
HandlerPossibleActions(h, t) ==
    CASE h.kind = "standard" -> StdPossibleActions(h, t)
      [] h.kind = "vowels" -> MvPossibleActions(h)
      [] h.kind = "wall" -> WallPossibleActions(h)

(***************************************************************************)
(* Sockets and command handlers (Endpoint._process_messages and the       *)
(* commands of the Only Connect endpoints).  A socket's commands run one   *)
(* after the other; a handler is suspended while it awaits room.fanout(),  *)
(* and the handlers of the other sockets run meanwhile.                    *)
(***************************************************************************)
Sockets == {"g1", "p1"}

\* the endpoint a socket is attached to
EndpointOf(s) == IF s = "g1" THEN "gm" ELSE "preview"

Idle == "idle"
AwaitFanout == "fanout"                 \* the handler returns when the fan-out is done
AwaitToggleSelected == "toggle-selected"  \* ActiveWall.toggle at "yield None" after append
AwaitToggleOverflow == "toggle-overflow"  \* ConnectingWallState.toggle at "yield None" before lock_in

InToggle(p) == p \in {AwaitToggleSelected, AwaitToggleOverflow}

\* what a suspended toggle is bound to, when the room no longer holds it:
\* the ActiveWall of its inner generator and the handler of its outer one
Attached == [wall |-> None, handler |-> None]

\* OnlyConnectGMEndpoint.action up to its await: the round, handler and
\* scores it leaves, how do() ended ("none" when do() was not called), whether
\* a fan-out follows, and whether it replaced the handler or the active wall
GMAction(ep, round, h, t, choice, shuffle) ==
    IF choice = START_NEXT_ROUND
    THEN LET n == NextRound(ep, t, round, h)
         IN  [round |-> n.round, state |-> n.state, teams |-> t, result |-> "none",
              fanout |-> TRUE, new_handler |-> TRUE, new_wall |-> FALSE]
    ELSE IF h.kind = "none"
    THEN [round |-> round, state |-> h, teams |-> t, result |-> "none",
          fanout |-> FALSE, new_handler |-> FALSE, new_wall |-> FALSE]
    ELSE LET r == RoundDo(h, t, choice, shuffle)
         IN  [round |-> round, state |-> r.h, teams |-> r.teams,
              result |-> IF r.raised THEN "raised" ELSE IF r.ok THEN "true" ELSE "false",
              fanout |-> r.ok, new_handler |-> FALSE,
              new_wall |-> h.kind = "wall" /\ r.ok /\ choice \in {SELECT_LION, SELECT_WATER}]

\* a suspended toggle keeps the handler and the ActiveWall it was started on
\* when the room replaces them
Detach(fr, p, old_h, out) ==
    IF ~InToggle(p) \/ ~IsNone(fr.handler) THEN fr
    ELSE IF out.new_handler THEN [fr EXCEPT !.handler = Some(old_h)]
    ELSE IF out.new_wall /\ IsNone(fr.wall) THEN [fr EXCEPT !.wall = old_h.active_wall]
    ELSE fr

\* the caps that keep the model finite
WithinBounds(t, h) ==
    /\ \A i \in 1..Len(t) : t[i] <= MaxScore
    /\ IF h.kind = "wall" /\ ~IsNone(h.active_wall)
       THEN /\ Len(Get(h.active_wall).not_found) <= MaxNotFound
            /\ IF IsNone(Get(h.active_wall).confirming_group) THEN TRUE
               ELSE Get(Get(h.active_wall).confirming_group) <= MaxConfirming
       ELSE TRUE

Last(cmd, action, result) == [cmd |-> cmd, action |-> action, result |-> result]

\* the orders random.shuffle may give the 16 clues of a wall: one that keeps
\* every group together, and one that puts the first and third groups in
\* front of a mix of the other two
Shuffles ==
    { <<2, 1, 3, 4, 5, 6, 7, 8, 9, 10, 11, 12, 13, 14, 15, 16>>,
      <<2, 1, 3, 4, 9, 10, 11, 12, 5, 6, 7, 13, 8, 14, 15, 16>> }

\* the words a toggle command may carry: a clue in one of the first cells of
\* the grid, or 0, a text that is on no wall
ToggleWords(h) ==
    {0} \cup (IF h.kind = "wall" /\ ~IsNone(h.active_wall)
              THEN LET u == Get(h.active_wall).ungrouped
                   IN  {u[i] : i \in 1..(IF Len(u) < ToggleReach THEN Len(u) ELSE ToggleReach)}
              ELSE {})

\* the actions the host sends: any but the tokens of questions that are
\* available and not among the first PickReach of those
HostChoices(h) ==
    IF h.kind # "standard" THEN PossibleActions
    ELSE LET open == {i \in 1..Len(h.available) : ~IsNone(h.available[i])}
             far == {i \in open : Cardinality({j \in open : j < i}) >= PickReach}
         IN  PossibleActions \ {SelectTokens[i] : i \in far}

\* a shuffle is drawn only where a wall is selected
ShuffleChoices(h, choice) ==
    IF h.kind = "wall" /\ choice \in {SELECT_LION, SELECT_WATER} THEN Shuffles
    ELSE {CHOOSE shuffle \in Shuffles : TRUE}

(***************************************************************************)
(* Actions                                                                 *)
(***************************************************************************)
\* OnlyConnectGMEndpoint.action, from the command's arrival to its await
Action(s, choice, shuffle) ==
    /\ s \in sockets
    /\ EndpointOf(s) = "gm"
    /\ pc[s] = Idle
    /\ choice \in HostChoices(current_state)
    /\ shuffle \in ShuffleChoices(current_state, choice)
    /\ LET out == GMAction(episode, current_round, current_state, teams, choice, shuffle)
       IN  /\ WithinBounds(out.teams, out.state)
           /\ current_round' = out.round
           /\ current_state' = out.state
           /\ teams' = out.teams
           /\ pc' = [pc EXCEPT ![s] = IF out.fanout THEN AwaitFanout ELSE Idle]
           /\ frame' = [x \in Sockets |-> Detach(frame[x], pc[x], current_state, out)]
           /\ last' = IF choice = START_NEXT_ROUND \/ out.result \in {"true", "raised"}
                      THEN Last("action", choice, out.result) ELSE last
    /\ UNCHANGED <<episode, sockets>>
    /\ UNCHANGED notPlayVars

\* OnlyConnectPreviewEndpoint.toggle (the game manager's endpoint inherits
\* it), from the command's arrival to its first await
Toggle(s, word) ==
    /\ s \in sockets
    /\ pc[s] = Idle
    /\ word \in ToggleWords(current_state)
    /\ IF current_state.kind # "wall"
       THEN UNCHANGED <<current_state, pc>>
       ELSE IF IsNone(current_state.active_wall)
       THEN UNCHANGED <<current_state, pc>>
       ELSE LET r == ToggleStart(Get(current_state.active_wall), word)
            IN  /\ current_state' = [current_state EXCEPT !.active_wall = Some(r.aw)]
                /\ pc' = [pc EXCEPT ![s] = CASE r.then = "return" -> Idle
                                             [] r.then = "yield_return" -> AwaitFanout
                                             [] r.then = "yield_check" -> AwaitToggleSelected]
    /\ UNCHANGED <<episode, teams, current_round, sockets, frame, last>>
    /\ UNCHANGED notPlayVars

\* a toggle resumed after the fan-out that followed its append: the rest of
\* ActiveWall.toggle, on the ActiveWall the generator is bound to
ResumeSelected(s) ==
    LET fr == frame[s]
        where == IF ~IsNone(fr.wall) THEN "frame-wall"
                 ELSE IF ~IsNone(fr.handler) THEN "frame-handler" ELSE "room"
        aw == CASE where = "frame-wall" -> Get(fr.wall)
                [] where = "frame-handler" -> Get(Get(fr.handler).active_wall)
                [] where = "room" -> Get(current_state.active_wall)
        r == ToggleCheck(aw)
        kept == CASE where = "frame-wall" -> [fr EXCEPT !.wall = Some(r.aw)]
                  [] where = "frame-handler" ->
                       [fr EXCEPT !.handler = Some([Get(@) EXCEPT !.active_wall = Some(r.aw)])]
                  [] where = "room" -> fr
    IN  /\ current_state' = IF where = "room"
                            THEN [current_state EXCEPT !.active_wall = Some(r.aw)]
                            ELSE current_state
        /\ pc' = [pc EXCEPT ![s] = CASE r.then \in {"return", "raise"} -> Idle
                                     [] r.then = "overflow" -> AwaitToggleOverflow
                                     [] r.then = "yield_return" -> AwaitFanout]
        /\ frame' = [frame EXCEPT ![s] = IF r.then = "overflow" THEN kept ELSE Attached]
        /\ UNCHANGED <<teams, last>>

\* a toggle resumed after the fan-out that followed its OverflowError: the
\* lock_in() of ConnectingWallState.toggle, on the handler it was started on
ResumeOverflow(s) ==
    LET fr == frame[s]
        mine == IsNone(fr.handler)
        r == WallLockIn(IF mine THEN current_state ELSE Get(fr.handler), teams)
    IN  /\ WithinBounds(r.teams, r.h)
        /\ current_state' = IF mine THEN r.h ELSE current_state
        /\ teams' = r.teams
        /\ pc' = [pc EXCEPT ![s] = IF r.raised THEN Idle ELSE AwaitFanout]
        /\ frame' = [frame EXCEPT ![s] = Attached]
        /\ last' = IF r.raised THEN Last("resume", LOCK_IN, "raised")
                   ELSE IF r.ok THEN Last("resume", LOCK_IN, "true") ELSE last

\* a suspended handler runs on when the fan-out it awaited is done
Resume(s) ==
    /\ s \in sockets
    /\ pc[s] # Idle
    /\ CASE pc[s] = AwaitFanout ->
              /\ pc' = [pc EXCEPT ![s] = Idle]
              /\ UNCHANGED <<current_state, teams, frame, last>>
         [] pc[s] = AwaitToggleSelected -> ResumeSelected(s)
         [] pc[s] = AwaitToggleOverflow -> ResumeOverflow(s)
    /\ UNCHANGED <<episode, current_round, sockets>>
    /\ UNCHANGED notPlayVars

Next ==
    \/ \E s \in Sockets, choice \in PossibleActions, shuffle \in Shuffles : Action(s, choice, shuffle)
    \/ \E s \in Sockets : \E word \in ToggleWords(current_state) : Toggle(s, word)
    \/ \E s \in Sockets : Resume(s)

(***************************************************************************)
(* Episodes and initial states                                             *)
(***************************************************************************)
\* six valid questions, numbered from base + 1
ValidSix(base) == [i \in 1..QUESTIONS_PER_ROUND |-> Question(base + i)]

\* six questions of which the third is still the CMS default
InvalidSix(base) ==
    [i \in 1..QUESTIONS_PER_ROUND |-> IF i = 3 THEN DefaultQuestion ELSE Question(base + i)]

WallGroup(g, elements) ==
    [question_type |-> "text", connection |-> 300 + g, details |-> 400 + g,
     elements |-> elements]

\* a wall of sixteen different clues
DistinctWall ==
    << WallGroup(1, <<1, 2, 3, 4>>), WallGroup(2, <<5, 6, 7, 8>>),
       WallGroup(3, <<9, 10, 11, 12>>), WallGroup(4, <<13, 14, 15, 16>>) >>

\* a valid wall whose first two groups share the clue 1
SharedClueWall ==
    << WallGroup(1, <<1, 2, 3, 4>>), WallGroup(2, <<1, 6, 7, 8>>),
       WallGroup(3, <<9, 10, 11, 12>>), WallGroup(4, <<13, 14, 15, 16>>) >>

\* a wall with an empty cell
InvalidWall ==
    << WallGroup(1, <<1, 2, 3, 0>>), WallGroup(2, <<5, 6, 7, 8>>),
       WallGroup(3, <<9, 10, 11, 12>>), WallGroup(4, <<13, 14, 15, 16>>) >>

\* (answer, prompt) pairs: "cat"/"CT" and "tea"/"T " are valid, "ace"/"AC" is not
PairCat == << <<"c", "a", "t">>, <<"C", "T">> >>
PairTea == << <<"t", "e", "a">>, <<"T", " ">> >>
PairAce == << <<"a", "c", "e">>, <<"A", "C">> >>

GroupAllValid == [connection |-> 501, words |-> <<PairCat, PairTea>>]
GroupSomeValid == [connection |-> 502, words |-> <<PairAce, PairCat>>]
GroupNoneValid == [connection |-> 503, words |-> <<PairAce>>]

VowelGroups == {GroupAllValid, GroupSomeValid, GroupNoneValid}

\* the missing-vowels sections: every list of one to MaxGroups groups
VowelLists == UNION {[1..k -> VowelGroups] : k \in 1..MaxGroups}

Episode(connections, completions, walls, vowels) ==
    [connections_round |-> connections, completions_round |-> completions,
     connecting_walls |-> walls, missing_vowels |-> vowels]

(***************************************************************************)
(* The stored form of an episode's content: OnlyConnectEpisode.serialise   *)
(* and OnlyConnectEngine._load_data (catbox/games/only_connect/engine.py). *)
(* A JSON value is tagged with its type; an object's members are a record. *)
(***************************************************************************)
JNull == [t |-> "null"]

JArray(items) == [t |-> "array", items |-> items]

JObject(members) == [t |-> "object", members |-> members]

\* OnlyConnectQuestion.json
QuestionJson(q) ==
    JObject([question_type |-> q.question_type, connection |-> q.connection,
             details |-> q.details, elements |-> JArray(q.elements)])

\* MissingVowelsGroup.pairs, as the list json() makes of it: the number of
\* the pair, the answer, the prompt and whether they agree
GroupPairs(group) ==
    [i \in 1..Len(group.words) |->
        JArray(<<i - 1, group.words[i][1], group.words[i][2],
                 CheckValid(group.words[i][2], group.words[i][1])>>)]

\* MissingVowelsGroup.json
GroupJson(group) ==
    JObject([connection |-> group.connection, words |-> JArray(GroupPairs(group))])

\* OnlyConnectEpisode.json, without the title and the description, which
\* _load_data does not read
ContentJson(ep) ==
    LET six(round) == IF IsNone(round) THEN JNull
                      ELSE JArray([i \in 1..Len(Get(round)) |-> QuestionJson(Get(round)[i])])
        wall(w) == JArray([i \in 1..Len(w) |-> QuestionJson(w[i])])
    IN  JObject([connections |-> six(ep.connections_round),
                 completions |-> six(ep.completions_round),
                 connecting_walls |->
                     IF IsNone(ep.connecting_walls) THEN JNull
                     ELSE JArray([i \in 1..Len(Get(ep.connecting_walls)) |->
                                     wall(Get(ep.connecting_walls)[i])]),
                 missing_vowels |->
                     IF IsNone(ep.missing_vowels) THEN JNull
                     ELSE JArray([i \in 1..Len(Get(ep.missing_vowels)) |->
                                     GroupJson(Get(ep.missing_vowels)[i])])])

\* OnlyConnectQuestion(**question)
LoadQuestion(json) ==
    [question_type |-> json.members.question_type, connection |-> json.members.connection,
     details |-> json.members.details, elements |-> json.members.elements.items]

\* MissingVowelsGroup(**group): of each word its second and third entry
LoadGroup(json) ==
    [connection |-> json.members.connection,
     words |-> [i \in 1..Len(json.members.words.items) |->
                   <<json.members.words.items[i].items[2],
                     json.members.words.items[i].items[3]>>]]

\* _load_data keeps a group if it is not null and its words are not empty
KeepsLoadedGroup(json) == json.t = "object" /\ json.members.words.items # <<>>

\* OnlyConnectEngine._load_data on an episode whose sections are None
LoadData(json) ==
    LET padded(items) ==
            items \o [i \in 1..(QUESTIONS_PER_ROUND - Len(items)) |-> QuestionJson(DefaultQuestion)]
        six(value) == IF value.t = "array"
                      THEN Some([i \in 1..Len(padded(value.items)) |->
                                    LoadQuestion(padded(value.items)[i])])
                      ELSE None
        wall(value) == [i \in 1..Len(value.items) |-> LoadQuestion(value.items[i])]
        walls == json.members.connecting_walls
        vowels == json.members.missing_vowels
    IN  Episode(six(json.members.connections),
                six(json.members.completions),
                IF walls.t = "array"
                THEN Some(<<wall(walls.items[1]), wall(walls.items[2])>>) ELSE None,
                IF vowels.t = "array"
                THEN Some(LET kept == SelectSeq(vowels.items, KeepsLoadedGroup)
                          IN  [i \in 1..Len(kept) |-> LoadGroup(kept[i])])
                ELSE None)

\* a group to which no word was added yet
GroupNoWords == [connection |-> 504, words |-> <<>>]

\* the contents an episode is given: every section on or off, and lists of
\* up to MaxGroups missing-vowels groups, of two words, one word or none
Contents ==
    {Episode(connections, completions, walls, vowels) :
        connections \in {None, Some(ValidSix(0)), Some(InvalidSix(0))},
        completions \in {None, Some(ValidSix(6))},
        walls \in {None, Some(<<DistinctWall, SharedClueWall>>)},
        vowels \in {None} \cup
                   {Some(list) : list \in UNION {[1..k -> VowelGroups \cup {GroupNoWords}] :
                                                     k \in 0..MaxGroups}}}

\* an episode is given its content
Compose(ep) ==
    /\ IsNone(composed)
    /\ composed' = Some(ep)
    /\ UNCHANGED reloaded
    /\ UNCHANGED notStoreVars

\* the content is serialised, and the text is loaded into a new episode
Reload ==
    /\ ~IsNone(composed)
    /\ IsNone(reloaded)
    /\ reloaded' = Some(LoadData(ContentJson(Get(composed))))
    /\ UNCHANGED composed
    /\ UNCHANGED notStoreVars

NextStore ==
    \/ \E ep \in Contents : Compose(ep)
    \/ Reload

\* OnlyConnectRoom.__init__, with the sockets that then joined
InitRoom(ep, nteams, joined) ==
    /\ episode = ep
    /\ teams = [i \in 1..nteams |-> 0]
    /\ current_round = PRE_GAME
    /\ current_state = NoHandler
    /\ sockets = joined
    /\ pc = [s \in Sockets |-> Idle]
    /\ frame = [s \in Sockets |-> Attached]
    /\ last = Last("init", "", "none")
    /\ NotPlayInit

\* a game of the two standard rounds, run by one game manager
InitStandard ==
    \E nteams \in 1..MAX_TEAMS,
       ep \in {Episode(Some(ValidSix(0)), None, None, None),
               Episode(None, Some(ValidSix(6)), None, None)} :
        InitRoom(ep, nteams, {"g1"})

SpecStandard == InitStandard /\ [][Next]_vars

\* a game of the missing-vowels round, run by one game manager
InitVowels ==
    \E nteams \in 1..MAX_TEAMS, groups \in VowelLists :
        InitRoom(Episode(None, None, None, Some(groups)), nteams, {"g1"})

SpecVowels == InitVowels /\ [][Next]_vars

\* a one-team game of the connecting walls, with a game manager and a
\* full-screen display
InitWall ==
    InitRoom(Episode(None, None, Some(<<DistinctWall, SharedClueWall>>), None),
             1, {"g1", "p1"})

\* what the host sends while the team plays a wall: it starts the round,
\* picks a wall and may lock it in
WallPlayChoices == {START_NEXT_ROUND, NEXT_QUESTION, SELECT_LION, SELECT_WATER, LOCK_IN}

NextWall ==
    \/ \E s \in Sockets, choice \in WallPlayChoices, shuffle \in Shuffles : Action(s, choice, shuffle)
    \/ \E s \in Sockets : \E word \in ToggleWords(current_state) : Toggle(s, word)
    \/ \E s \in Sockets : Resume(s)

SpecWall == InitWall /\ [][NextWall]_vars

\* a game of the connecting walls in which the host locks a wall in as soon
\* as it is picked and then goes through its groups
InitConfirm ==
    \E nteams \in 1..MAX_TEAMS :
        InitRoom(Episode(None, None, Some(<<DistinctWall, DistinctWall>>), None), nteams, {"g1"})

\* what the host sends then
ConfirmChoices ==
    WallPlayChoices \cup {REVEAL_FOR_STEAL, SCORE_TEAM1, SCORE_TEAM2, SCORE_INCORRECT}

NextConfirm ==
    \/ \E s \in Sockets, choice \in ConfirmChoices, shuffle \in Shuffles : Action(s, choice, shuffle)
    \/ \E s \in Sockets : Resume(s)

SpecConfirm == InitConfirm /\ [][NextConfirm]_vars

\* every mix of absent, valid and invalid rounds; the host only moves from
\* round to round
InitRounds ==
    \E nteams \in 1..MAX_TEAMS,
       connections \in {None, Some(ValidSix(0)), Some(InvalidSix(0))},
       completions \in {None, Some(ValidSix(6)), Some(InvalidSix(6))},
       walls \in {None, Some(<<DistinctWall, DistinctWall>>),
                  Some(<<DistinctWall, InvalidWall>>), Some(<<InvalidWall, DistinctWall>>)},
       vowels \in {None, Some(<<GroupNoneValid>>), Some(<<GroupNoneValid, GroupSomeValid>>)} :
        InitRoom(Episode(connections, completions, walls, vowels), nteams, {"g1"})

NextRounds ==
    \/ \E s \in Sockets, shuffle \in Shuffles : Action(s, START_NEXT_ROUND, shuffle)
    \/ \E s \in Sockets : Resume(s)

SpecRounds == InitRounds /\ [][NextRounds]_vars

\* an Only Connect room that clients connect to, send messages to and leave
SpecRuntime ==
    InitRoom(Episode(None, None, None, None), 1, {}) /\ [][NextRuntime]_vars

\* a site on which rooms are opened, visited and reaped
SpecSite ==
    InitRoom(Episode(None, None, None, None), 1, {}) /\ [][NextSite]_vars

\* a site on which rooms are registered and reaped
SpecRegistry ==
    InitRoom(Episode(None, None, None, None), 1, {}) /\ [][NextRegistry]_vars

\* a draft opened in the editor and edited by two editors
SpecEdit ==
    InitRoom(Episode(None, None, None, None), 1, {}) /\ [][NextEdit]_vars

\* episodes that are created, loaded, and moved from state to state
SpecVersions ==
    InitRoom(Episode(None, None, None, None), 1, {}) /\ [][NextEngine]_vars

\* an edit room whose saver polls and sleeps as the seconds pass, and that
\* is stopped once
SpecSaver ==
    InitRoom(Episode(None, None, None, None), 1, {}) /\ [][NextSaver]_vars

\* contents that are serialised and loaded again
SpecStore ==
    InitRoom(Episode(None, None, None, None), 1, {}) /\ [][NextStore]_vars

(***************************************************************************)
(* Properties                                                              *)
(***************************************************************************)

\* C1: within one room command handling is serialised: while the handler of
\* one socket has started and has not yet run to the end of its fan-out, no
\* handler of another socket has started or resumed, so at most one socket
\* has a handler in progress
C1_Serialised == Cardinality({s \in sockets : pc[s] # Idle}) <= 1

\* C2: for every round handler and every reachable sub-state, an action that
\* possible_actions() does not offer and that is not a selection token still
\* available is ignored: do() returns false, raises nothing, and leaves the
\* handler and every team score as they were
C2_NotPermittedIgnored ==
    current_state.kind # "none" =>
        LET h == current_state
            tokens == CASE h.kind = "standard" ->
                             {SelectTokens[i] : i \in {j \in 1..Len(h.available) :
                                                         ~IsNone(h.available[j])}}
                        [] h.kind = "wall" ->
                             (IF IsNone(h.available_walls[1]) THEN {} ELSE {SELECT_LION})
                             \cup (IF IsNone(h.available_walls[2]) THEN {} ELSE {SELECT_WATER})
                        [] OTHER -> {}
            permitted == HandlerPossibleActions(h, teams) \cup tokens
        IN  \A choice \in DoActions \ permitted :
              \A shuffle \in Shuffles :
                LET r == RoundDo(h, teams, choice, shuffle)
                IN  /\ ~r.ok
                    /\ ~r.raised
                    /\ r.h = h
                    /\ r.teams = teams

\* C3: once a standard round is in POST_ROUND, a step that is not a
\* START_NEXT_ROUND (the room stays in its round) changes neither the
\* sub-state, nor the revealed-clue count, nor the active team, nor a score
C3_PostRoundFrozen ==
    [][ ( /\ current_state.kind = "standard"
          /\ current_state.state = POST_ROUND
          /\ current_round' = current_round )
        => /\ current_state'.state = POST_ROUND
           /\ current_state'.revealed_clues = current_state.revealed_clues
           /\ current_state'.active_team = current_state.active_team
           /\ teams' = teams ]_vars

\* C4: in a standard round, a SCORE_TEAMn accepted in LOCKED_IN with k clues
\* revealed adds 5, 3, 2, 1 points for k = 1, 2, 3, 4 to team n's score,
\* leaves every other score alone and moves the round to ANSWER_REVEALED
C4_ScoreLadder ==
    [][ \A n \in 1..MAX_TEAMS :
          ( /\ current_state.kind = "standard"
            /\ current_state.state = LOCKED_IN
            /\ current_state' # current_state
            /\ last' = Last("action", IF n = 1 THEN SCORE_TEAM1 ELSE SCORE_TEAM2, "true") )
          => LET k == current_state.revealed_clues
                 points == CASE k = 1 -> 5 [] k = 2 -> 3 [] k = 3 -> 2 [] k = 4 -> 1
             IN  /\ teams'[n] = teams[n] + points
                 /\ \A m \in 1..Len(teams) : m # n => teams'[m] = teams[m]
                 /\ current_state'.state = ANSWER_REVEALED ]_vars

\* C4 witness: team 2 has just been given the three points of an answer on
\* the second clue
C4_ScoredOnSecondClue ==
    /\ current_state.kind = "standard"
    /\ current_state.state = ANSWER_REVEALED
    /\ last = Last("action", SCORE_TEAM2, "true")
    /\ pc["g1"] = AwaitFanout
    /\ teams = <<0, 3>>

\* C5: for an active connecting wall, in every reachable state,
\* |grouped| + |ungrouped| + |not_found| = 16
C5_SixteenClues ==
    (current_state.kind = "wall" /\ ~IsNone(current_state.active_wall)) =>
        LET aw == Get(current_state.active_wall)
        IN  Len(aw.grouped) + Len(aw.ungrouped) + Len(aw.not_found) = 16

\* C6: on an active wall strikes is null while more than 8 clues are
\* ungrouped, and is never negative while the round is QUESTION_ACTIVE
C6_StrikesNeverNegative ==
    (current_state.kind = "wall" /\ ~IsNone(current_state.active_wall)) =>
        LET aw == Get(current_state.active_wall)
        IN  /\ Len(aw.ungrouped) > 8 => IsNone(aw.strikes)
            /\ (current_state.state = QUESTION_ACTIVE /\ ~IsNone(aw.strikes))
                  => Get(aw.strikes) >= 0

\* C7: when the toggle whose 4-selection emptied ungrouped or used the last
\* strike runs its lock_in on a wall still in QUESTION_ACTIVE, the round moves
\* to LOCKED_IN with every remaining clue in not_found, four groups in groups
\* and strikes null, and the active team gets |grouped|/4 points; when the
\* host has locked the wall in meanwhile, that lock_in changes nothing
C7_AutoReveal ==
    [][ \A s \in sockets :
          ( /\ pc[s] = AwaitToggleOverflow
            /\ pc'[s] # AwaitToggleOverflow
            /\ IsNone(frame[s].handler)
            /\ current_state.kind = "wall" )
          => IF current_state.state = QUESTION_ACTIVE
             THEN LET aw == Get(current_state.active_wall)
                      after == Get(current_state'.active_wall)
                      team == current_state.active_team + 1
                  IN  /\ current_state'.state = LOCKED_IN
                      /\ after.ungrouped = <<>>
                      /\ Len(after.not_found) = Len(aw.not_found) + Len(aw.ungrouped)
                      /\ Range(aw.ungrouped) \subseteq Range(after.not_found)
                      /\ Len(after.groups) = 4
                      /\ IsNone(after.strikes)
                      /\ teams' = [teams EXCEPT ![team] = @ + (Len(aw.grouped) \div 4)]
             ELSE /\ current_state' = current_state
                  /\ teams' = teams ]_vars

\* C8: whenever the Missing Vowels round presents a question, its pointers
\* designate a valid pair of a group of the episode that has one
C8_PresentsValidPairs ==
    (current_state.kind = "vowels" /\ current_state.state = QUESTION_ACTIVE) =>
        LET h == current_state
        IN  /\ h.group_index + 1 \in 1..Len(h.questions)
            /\ h.question_index + 1 \in 1..Len(ValidPairs(h.questions[h.group_index + 1]))
            /\ h.current_group = ValidPairs(h.questions[h.group_index + 1])

\* C9: in a Completions round, in the sub-states before ANSWER_REVEALED the
\* public view never holds the 4th element of the current question and shows
\* at most 3 of its elements, a NEXT_CLUE after the third clue changes
\* nothing, and the admin view holds the 4th element whenever it shows a
\* current question
C9_FourthHidden ==
    (current_round = COMPLETIONS /\ current_state.kind = "standard") =>
        LET h == current_state
            pub == StdPublicState(h, teams).current
            adm == StdAdminState(h, teams).current
            q == h.current_question
        IN  /\ h.state \in {PRE_ROUND, QUESTION_SELECTION, QUESTION_ACTIVE, LOCKED_IN, STEALING}
                 => /\ q.elements[4] \notin Range(pub.elements)
                    /\ Cardinality(Range(pub.elements) \cap Range(q.elements)) <= 3
            /\ h.revealed_clues >= 3
                 => LET r == StdDo(h, teams, NEXT_CLUE)
                    IN  ~r.ok /\ ~r.raised /\ r.h = h /\ r.teams = teams
            /\ adm.shown => (Len(adm.elements) = 4 /\ adm.elements[4] = q.elements[4])

\* C9 witness: the third clue of a Completions question has just been revealed
C9_ThirdClueShown ==
    /\ current_round = COMPLETIONS
    /\ current_state.kind = "standard"
    /\ current_state.state = LOCKED_IN
    /\ current_state.revealed_clues = 3
    /\ last = Last("action", NEXT_CLUE, "true")

\* C10: a START_NEXT_ROUND installs the first round after the current one, in
\* the order connections, completions, connecting_walls, missing_vowels, whose
\* content is valid for the room's number of teams, or post-game when there is
\* none; from post-game the room stays in post-game
C10_NextValidRound ==
    [][ (pc["g1"] = Idle /\ pc'["g1"] = AwaitFanout /\ last' = Last("action", START_NEXT_ROUND, "none"))
        => LET order == <<CONNECTIONS, COMPLETIONS, CONNECTING_WALLS, MISSING_VOWELS>>
               valid == [r \in Range(order) |->
                           CASE r = CONNECTIONS -> HasConnectionsRound(episode)
                             [] r = COMPLETIONS -> HasCompletionsRound(episode)
                             [] r = CONNECTING_WALLS -> HasConnectingWalls(episode, Len(teams))
                             [] r = MISSING_VOWELS -> HasMissingVowels(episode)]
               at == IF current_round = PRE_GAME THEN 0
                     ELSE IF current_round = POST_GAME THEN 5
                     ELSE CHOOSE i \in 1..4 : order[i] = current_round
               later == {i \in (at + 1)..4 : valid[order[i]]}
               first == IF later = {} THEN POST_GAME
                        ELSE order[CHOOSE i \in later : \A j \in later : i <= j]
           IN  /\ current_round' = first
               /\ current_state'.kind =
                     CASE first \in {CONNECTIONS, COMPLETIONS} -> "standard"
                       [] first = CONNECTING_WALLS -> "wall"
                       [] first = MISSING_VOWELS -> "vowels"
                       [] first = POST_GAME -> "none"
               /\ current_state'.kind # "none" => current_state'.state = PRE_ROUND
               /\ teams' = teams ]_vars

\* C10 witness: the room has just moved into the missing-vowels round over
\* connecting walls that are there but not valid for its teams
C10_SkippedWalls ==
    /\ current_round = MISSING_VOWELS
    /\ current_state.kind = "vowels"
    /\ ~IsNone(episode.connecting_walls)
    /\ ~HasConnectingWalls(episode, Len(teams))
    /\ last = Last("action", START_NEXT_ROUND, "none")
    /\ pc["g1"] = AwaitFanout

\* C11: an inbound frame that fails to decode or dispatch (malformed JSON, a
\* JSON value that is not an object, a missing or unknown cmd, the name of an
\* attribute that is no registered command, wrong or missing arguments, a
\* handler that raises) calls no unregistered method, gets the sender an
\* error frame and leaves the sender connected, in the socket set of its
\* endpoint and with its messages still read
C11_ErrorFrameKeepsSocket ==
    [][\A c \in Clients, msg \in Messages :
          LET e == ClientEndpoint(c)
              commands == {name \in {"setup", "action", "close"} : GetAttr(e, name).rpc}
              valid == {Object(<< <<"cmd", Str("setup")>> >>)}
                       \cup (IF e = "gm"
                             THEN {Object(<< <<"cmd", Str("action")>>,
                                             <<"action", Str("START_NEXT_ROUND")>> >>),
                                   Object(<< <<"cmd", Str("close")>> >>)}
                             ELSE {})
          IN  (/\ msg \notin valid
               /\ ~endpoint_stopped[e]
               /\ \E orders \in StopOrders(endpoint_sockets) : Receive(c, msg, orders))
              => /\ event'.ran \in commands \cup {""}
                 /\ received'[c].error = received[c].error + 1
                 /\ transport'[c] = "open"
                 /\ c \in endpoint_sockets'[e]
                 /\ task'[c] = "reading"]_vars

\* C12: when a command of the game manager fans the state out and the send
\* to one socket fails, every socket of every endpoint whose connection is
\* open still receives the state_change frame, and the fan-out raises
\* nothing into the command: the sender gets no error frame and its
\* messages are read on
C12_FanoutSurvivesBadSocket ==
    [][\A c \in Clients :
          (/\ ClientEndpoint(c) = "gm"
           /\ ~endpoint_stopped["gm"]
           /\ \E orders \in StopOrders(endpoint_sockets) :
                 Receive(c, Object(<< <<"cmd", Str("action")>>,
                                      <<"action", Str("START_NEXT_ROUND")>> >>), orders))
          => /\ \A e \in Endpoints : \A x \in endpoint_sockets[e] :
                   transport[x] = "open"
                   => received'[x].state_change = received[x].state_change + 1
             /\ received'[c].error = received[c].error
             /\ task'[c] = "reading"
             /\ event'.result = "reading"]_vars

\* a fan-out has just run with the dead socket of c1 in the game manager's
\* set, and c2 and the overlay's c3 have the frame
C12_OthersReceived ==
    /\ event = Event("message", "action", "reading")
    /\ "c1" \in endpoint_sockets["gm"]
    /\ transport["c1"] = "closed"
    /\ received["c1"].state_change = 0
    /\ received["c2"].state_change = 1
    /\ received["c3"].state_change = 1

\* C13: Room.stop() is idempotent: the first call leaves the room stopped
\* and every socket of every endpoint whose connection was open sent one
\* close frame and closed; a call on a stopped room changes nothing and
\* sends no frame to any socket
C13_StopIdempotent ==
    [][(\E orders \in StopOrders(endpoint_sockets) : Stop(orders))
       => IF ~room_stopped
          THEN /\ room_stopped'
               /\ \A e \in Endpoints : \A x \in endpoint_sockets[e] :
                     transport[x] = "open"
                     => /\ received'[x].close = received[x].close + 1
                        /\ transport'[x] = "closed"
          ELSE UNCHANGED <<room_stopped, endpoint_stopped, endpoint_sockets, transport,
                           task, received>>]_vars

\* C14: Room.reap() returns true exactly when the room's idle deadline has
\* passed (and it then stopped the room); for a room whose deadline has not
\* passed it returns false.  Checked on every room the reaper asks in a sweep.
C14_ReapIffDeadlinePassed ==
    [][Sweep =>
        \A r \in RoomIds :
            reaped'[r] # "none" =>
                /\ (reaped'[r] = "true") <=> (Get(rooms[r]).ping < now)
                /\ (reaped'[r] = "true") => Get(rooms'[r]).rt.room_stopped
                /\ (Get(rooms[r]).ping >= now) => reaped'[r] = "false"]_vars

\* C15: a room that has gone without a message for the idle timeout is, by
\* the first sweep of the reaper after its deadline, stopped and gone from
\* the registry together with the code of each of its endpoints; and each
\* message received by a room that is running moves its deadline to the
\* idle timeout after that message.
C15_IdleRoomReaped ==
    [][/\ Sweep =>
            \A r \in DictValues(active_rooms) :
                Get(rooms[r]).ping < now =>
                    /\ Get(rooms'[r]).rt.room_stopped
                    /\ \A e \in Endpoints : Get(rooms'[r]).rt.endpoint_stopped[e]
                    /\ r \notin DictValues(active_rooms')
                    /\ \A e \in Endpoints :
                           Get(rooms[r]).room_code[e] \notin DictKeys(active_endpoints')
       /\ \A r \in Visited, msg \in VisitorMessages :
            (RoomMessage(r, msg) /\ ~Get(rooms[r]).rt.room_stopped) =>
                Get(rooms'[r]).ping = now + TIMEOUT]_vars

\* the rooms in the registry
LiveRooms == DictValues(active_rooms)

\* C16: whatever rooms were registered and reaped, each code in the registry
\* identifies one endpoint, namely the one that carries the code; no two
\* rooms in the registry share a code and no two endpoints share a code.
C16_CodesUnique ==
    /\ \A i, j \in 1..Len(active_endpoints) :
           active_endpoints[i].key = active_endpoints[j].key => i = j
    /\ \A i, j \in 1..Len(active_rooms) :
           (active_rooms[i].key = active_rooms[j].key
                \/ active_rooms[i].value = active_rooms[j].value) => i = j
    /\ \A r \in LiveRooms, e \in Endpoints :
           LET code == Get(rooms[r]).room_code[e]
           IN  /\ code \in Range(Codes)
               /\ code \in DictKeys(active_endpoints)
               /\ DictGet(active_endpoints, code) = <<r, e>>
    /\ \A r, q \in LiveRooms, e, f \in Endpoints :
           Get(rooms[r]).room_code[e] = Get(rooms[q]).room_code[f] => (r = q /\ e = f)
    /\ \A i \in 1..Len(active_rooms) :
           Get(rooms[active_rooms[i].value]).room_code["gm"] = active_rooms[i].key

\* two rooms are registered, one of them under a code that a room reaped
\* before had
C16_CodeReused ==
    \E gone \in RoomIds \ LiveRooms, r, q \in LiveRooms :
        /\ ~IsNone(rooms[gone])
        /\ r # q
        /\ Len(active_endpoints) = 2 * Cardinality(Endpoints)
        /\ \E e, f \in Endpoints :
               Get(rooms[gone]).room_code[e] = Get(rooms[r]).room_code[f]

\* the editor room is at rest: every frame handed to _fanout has been sent
\* and the save that was queued has been made
AtRest == edit_open /\ outbox = <<>> /\ IsNone(save_timer) /\ log # <<>>

\* C17: once every command of the editors has been handled and the queued
\* save has been made, the stored draft is the state that was broadcast
\* last, and every editor whose connection stands has received, in order,
\* the broadcast of each accepted update.
C17_SavedIsLastBroadcast ==
    AtRest =>
        /\ stored = log[Len(log)].data
        /\ \A e \in Editors :
               editor[e] = "open" => frames[e] = [i \in 1..Len(log) |-> log[i].data]

\* the two editors have each updated the connections round, one after the
\* other, and the room is at rest
C17_TwoEditorsSaved ==
    /\ AtRest
    /\ Len(log) = 2
    /\ log[1].cmd = "update" /\ log[2].cmd = "update"
    /\ log[1].editor # log[2].editor
    /\ log[1].data["connections"] = Some([connection |-> "x"])
    /\ log[2].data["connections"] = Some([connection |-> "y"])
    /\ \A e \in Editors : editor[e] = "open" /\ Len(frames[e]) = 2
    /\ stored["connections"] = Some([connection |-> "y"])

\* C18: enable_section(s) after disable_section(s) brings back what s held
\* when it was switched off, with every update accepted since; and a save
\* made while s is off stores null for s.
C18_EnableRestoresSection ==
    [][/\ \A e \in Editors, s \in Sections :
            (EnableSection(e, s) /\ ~IsNone(expected[s])) =>
                /\ EpisodeJson(edit_episode', heap')[s] = expected[s]
                /\ log'[Len(log')].data[s] = expected[s]
       /\ Save => \A s \in Sections : ~IsNone(expected[s]) => IsNone(stored'[s])]_vars

\* the connections round that came with the draft was switched off, was
\* updated while off, the frame of that update and the save carrying null
\* for it, and it is on again with the update in it
C18_RestoredWithUpdate ==
    /\ edit_episode["connections"] = Some(Loaded("connections"))
    /\ Len(log) = 3
    /\ log[1].cmd = "disable_section" /\ IsNone(log[1].data["connections"])
    /\ log[2].cmd = "update" /\ IsNone(log[2].data["connections"])
    /\ log[3].cmd = "enable_section"
    /\ log[3].data["connections"] = Some([connection |-> "x"])
    /\ IsNone(stored["connections"])

\* C19: whatever save_state calls and draft creations were made, an episode
\* has at most one version that is PUBLISHED and at most one that is
\* PENDING_REVIEW.
C19_OnePublishedOneInReview ==
    \A id \in EpisodeIds :
        /\ Cardinality(VersionsIn(db[id], PUBLISHED)) <= 1
        /\ Cardinality(VersionsIn(db[id], PENDING_REVIEW)) <= 1

\* a second version of an episode was published while a handler still holds
\* the first one as PUBLISHED
C19_SecondPublished ==
    \E id \in EpisodeIds, h \in Handles :
        /\ db[id] = <<SUPERSEDED, PUBLISHED>>
        /\ loaded[h] = Some(EpisodeObject(id, 1, PUBLISHED))

\* C20: save_state to PUBLISHED turns every other PUBLISHED version of the
\* same episode into SUPERSEDED and changes no other version in another
\* state, of this episode or of another; save_state to DISCARDED or to
\* SUPERSEDED changes no version but its target.
C20_DemotionOnlyOnPublish ==
    [][\A h \in Handles, state \in {PUBLISHED, DISCARDED, SUPERSEDED} :
        SaveState(h, state) =>
            /\ \A id \in EpisodeIds : Len(db'[id]) = Len(db[id])
            /\ \A id \in EpisodeIds : \A v \in 1..Len(db[id]) :
                   (id # Get(loaded[h]).id \/ v # Get(loaded[h]).version) =>
                       db'[id][v] =
                           IF /\ state = PUBLISHED
                              /\ id = Get(loaded[h]).id
                              /\ db[id][v] = PUBLISHED
                           THEN SUPERSEDED
                           ELSE db[id][v]]_vars

\* the second version of the second episode was published over the first,
\* with the first episode published and in review
C20_PublishedOverFirst ==
    /\ db[2] = <<SUPERSEDED, PUBLISHED>>
    /\ db[1] = <<PUBLISHED, PENDING_REVIEW>>
    /\ \E h \in Handles : loaded[h] = Some(EpisodeObject(2, 2, PUBLISHED))

\* C21 as stated: on a save_state to DRAFT or PENDING_REVIEW of a version
\* that is in the state its object says, the other versions of the episode
\* that are in that state become DISCARDED.
C21_SourceStateDiscarded ==
    [][\A h \in Handles, state \in {DRAFT, PENDING_REVIEW} :
        (SaveState(h, state)
            /\ db[Get(loaded[h]).id][Get(loaded[h]).version] = Get(loaded[h]).status) =>
            \A v \in 1..Len(db[Get(loaded[h]).id]) :
                (v # Get(loaded[h]).version
                    /\ db[Get(loaded[h]).id][v] = Get(loaded[h]).status) =>
                        db'[Get(loaded[h]).id][v] = DISCARDED]_vars

\* C21: on a save_state to DRAFT or PENDING_REVIEW, the other versions of
\* the episode that are in the new state become DISCARDED, and no other
\* version but the target changes, those in the state the object was in
\* included.
C21_TargetStateDiscarded ==
    [][\A h \in Handles, state \in {DRAFT, PENDING_REVIEW} :
        SaveState(h, state) =>
            \A id \in EpisodeIds : \A v \in 1..Len(db[id]) :
                (id # Get(loaded[h]).id \/ v # Get(loaded[h]).version) =>
                    db'[id][v] =
                        IF id = Get(loaded[h]).id /\ db[id][v] = state
                        THEN DISCARDED
                        ELSE db[id][v]]_vars

\* the first version was taken back to DRAFT and the draft made meanwhile
\* was discarded for it
C21_DraftDiscardedForDraft ==
    \E id \in EpisodeIds, h \in Handles :
        /\ db[id] = <<DRAFT, DISCARDED>>
        /\ loaded[h] = Some(EpisodeObject(id, 1, DRAFT))
        /\ \E g \in Handles : loaded[g] = Some(EpisodeObject(id, 2, DRAFT))

\* C22: loading the serialised form of a content gives that content again,
\* whatever sections are on and however many words its missing-vowels
\* groups have.
C22_LoadOfSerialisedIsContent ==
    ~IsNone(reloaded) => Get(reloaded) = Get(composed)

\* C23: in every reachable state of a round handler, every action that
\* possible_actions() offers, START_NEXT_ROUND apart, is accepted by do():
\* it returns true and raises nothing, so SCORE_TEAM2 is not offered to a
\* room of one team
C23_OfferedActionsAccepted ==
    current_state.kind # "none" =>
        \A choice \in HandlerPossibleActions(current_state, teams) \ {START_NEXT_ROUND} :
            \A shuffle \in Shuffles :
                LET r == RoundDo(current_state, teams, choice, shuffle)
                IN  r.ok /\ ~r.raised

\* the saver wakes and writes the draft
SaverWrites ==
    /\ SaverWakes(TRUE)
    /\ \/ saver.pc = "diff"
       \/ SaverLoop(save_timer, stopper.pc # "idle", clock).wrote

\* C24: the saver of an edit room writes only when the save timer is set
\* and its deadline, three seconds after the first change not yet saved,
\* has passed, never before; and the write clears the timer.
C24_WritesOnlyPastDeadline ==
    [][SaverWrites =>
        /\ ~IsNone(save_timer)
        /\ clock >= Get(save_timer)
        /\ IsNone(save_timer')]_vars

\* the step sets the save timer, if it was not set, and hands a frame with
\* the whole episode as it is after the step to the fan-out
ArmsAndBroadcasts ==
    /\ ~IsNone(save_timer')
    /\ IsNone(save_timer) => save_timer' = Some(clock + 3)
    /\ Len(outbox') = Len(outbox) + 1
    /\ outbox'[Len(outbox')].data = EpisodeJson(edit_episode', heap')

\* C25: every change that an edit room accepts, by set_meta, by
\* enable_section, by disable_section or by update, sets the save timer and
\* broadcasts the whole episode as changed to the connected editors.
C25_ChangeArmsAndBroadcasts ==
    [][\A e \in Editors :
        /\ (\E value \in Values : SetMeta(e, value)) => ArmsAndBroadcasts
        /\ \A section \in Sections :
               (EnableSection(e, section) \/ DisableSection(e, section)) => ArmsAndBroadcasts
        /\ \A input \in UpdateInputs :
               ( /\ Update(e, input)
                 /\ input[1] \in Sections
                 /\ Updated(heap[episode_but_enabled[input[1]]], input).updated )
               => ArmsAndBroadcasts]_vars

\* C26: a write of the saver that fails does not end the saving of the
\* room: the changes it did not write are written by a later write of the
\* saver or by the write of stop, so that once stop has come to its write
\* or past it, the draft stored is the episode of the room.
C26_FailedWriteMadeUp ==
    (saver.pc = "raised" /\ stopper.pc \in {"returned", "saver_raised"}) =>
        /\ stored = EpisodeJson(edit_episode, heap)
        /\ stored_title = title

\* C27: the submit of an editor stops the room first: the saver is awaited
\* and the episode of the room is written while its version is a DRAFT;
\* only then is the version moved to PENDING_REVIEW.  So a version that
\* was submitted is stored with every change accepted before the submit.
C27_SubmittedHoldsEveryChange ==
    /\ edit_status = PENDING_REVIEW =>
           /\ stopper.pc = "returned" /\ stopper.by \in Editors
           /\ saver.pc = "ended"
           /\ stored = EpisodeJson(edit_episode, heap)
           /\ stored_title = title
    /\ stopper.pc \in {"idle", "awaits"} => edit_status = DRAFT

\* an editor changed a connection and the title and submitted before the
\* saver first woke, which it did after five seconds, to end: the version is
\* in review and both changes are stored, by the write of stop
C27_SubmittedBeforeSaverWoke ==
    /\ edit_status = PENDING_REVIEW
    /\ clock = POLL
    /\ log # <<>> /\ log[Len(log)].cmd = "update"
    /\ edit_episode["connections"] = Some(Loaded("connections"))
    /\ stored["connections"] = Some([connection |-> "x"])
    /\ title = "x" /\ stored_title = "x"

\* C28: when a command of the game manager fans the state out, every
\* socket to which the send fails is taken out of the socket set of its
\* endpoint, so that the next fan-out does not send to it.
C28_FailedSocketRemoved ==
    [][\A c \in Clients :
          (/\ ClientEndpoint(c) = "gm"
           /\ ~endpoint_stopped["gm"]
           /\ \E orders \in StopOrders(endpoint_sockets) :
                 Receive(c, Object(<< <<"cmd", Str("action")>>,
                                      <<"action", Str("START_NEXT_ROUND")>> >>), orders))
          => \A e \in Endpoints : \A x \in endpoint_sockets[e] :
                 transport[x] # "open" => x \notin endpoint_sockets'[e]]_vars

\* C29: once a wall is locked in, its four groups are confirmed in order:
\* the group pointer moves on only when the group it is at has been
\* resolved (by one SCORE_TEAMn or SCORE_INCORRECT), it never passes the
\* fourth group (index 3), and the round leaves the wall, for POST_ROUND or
\* for the other team's QUESTION_SELECTION, only when the fourth group is
\* resolved.
C29_GroupsConfirmedInOrder ==
    [][(current_state.kind = "wall" /\ current_state'.kind = "wall"
            /\ current_state.state = LOCKED_IN) =>
        LET aw == Get(current_state.active_wall)
            next == Get(current_state'.active_wall)
        IN  /\ next.confirming_group # aw.confirming_group =>
                  /\ aw.is_group_revealed
                  /\ next.confirming_group =
                         Some(IF IsNone(aw.confirming_group) THEN 0
                              ELSE Get(aw.confirming_group) + 1)
                  /\ Get(next.confirming_group) <= SLOTS_PER_CONNECTION - 1
            /\ current_state'.state # LOCKED_IN =>
                  /\ current_state'.state \in {POST_ROUND, QUESTION_SELECTION}
                  /\ aw.confirming_group = Some(SLOTS_PER_CONNECTION - 1)
                  /\ aw.is_group_revealed]_vars

\* the host's NEXT_QUESTION opens the selection of a question in a
\* standard round
OpensSelection ==
    /\ current_state.kind = "standard"
    /\ \E s \in Sockets, shuffle \in Shuffles : Action(s, NEXT_QUESTION, shuffle)
    /\ current_state.state \in {PRE_ROUND, ANSWER_REVEALED}
    /\ current_state'.state = QUESTION_SELECTION

\* C30 as stated: in a standard round a NEXT_QUESTION changes the active
\* team exactly when it opens the selection of a question in a Connections
\* round of two teams; in a Completions round and with one team it never
\* does.
C30_AlternatesInConnectionsOnly ==
    [][(current_state.kind = "standard"
            /\ \E s \in Sockets, shuffle \in Shuffles : Action(s, NEXT_QUESTION, shuffle)) =>
        (current_state'.active_team # current_state.active_team
            <=> (OpensSelection /\ Len(teams) = MAX_TEAMS /\ current_round = CONNECTIONS))]_vars

\* C30, amended: in a standard round a NEXT_QUESTION changes the active
\* team exactly when it opens the selection of a question in a game of two
\* teams, in a Completions round as in a Connections round; with one team
\* it never does.
C30_AlternatesWithTwoTeams ==
    [][(current_state.kind = "standard"
            /\ \E s \in Sockets, shuffle \in Shuffles : Action(s, NEXT_QUESTION, shuffle)) =>
        (current_state'.active_team # current_state.active_team
            <=> (OpensSelection /\ Len(teams) = MAX_TEAMS))]_vars

\* a Completions round of two teams in which one question was played and
\* the selection of the next is open, the first team being active again
C30_CompletionsAlternated ==
    /\ current_round = COMPLETIONS
    /\ Len(teams) = MAX_TEAMS
    /\ current_state.kind = "standard"
    /\ current_state.state = QUESTION_SELECTION
    /\ current_state.active_team = 0
    /\ \E i \in 1..Len(current_state.available) : IsNone(current_state.available[i])
    /\ last = Last("action", NEXT_QUESTION, "true")

\* a standard round handler whose questions have lost their host-only notes
WithoutDetails(h) ==
    [h EXCEPT !.data = [i \in 1..Len(@) |-> [@[i] EXCEPT !.details = 0]],
              !.current_question = [@ EXCEPT !.details = 0]]

\* C31: the public view of a standard round holds the details of no
\* question, whatever the sub-state: it is the view the same round gives
\* for an episode that differs in its details only.
C31_PublicViewHidesDetails ==
    current_state.kind = "standard" =>
        /\ StdPublicState(current_state, teams).current.details = 0
        /\ StdPublicState(current_state, teams)
               = StdPublicState(WithoutDetails(current_state), teams)

\* MissingVowelsState.admin_state: the question of the host's view
MvAdminState(h) ==
    LET q == MvActiveQuestion(h)
    IN  IF ~q.shown
        THEN [raised |-> q.raised, shown |-> FALSE, connection |-> 0, text |-> <<>>, answer |-> <<>>]
        ELSE [raised |-> FALSE, shown |-> TRUE,
              connection |-> h.questions[h.group_index + 1].connection,
              text |-> h.current_group[h.question_index + 1][2],
              answer |-> h.current_group[h.question_index + 1][1]]

\* a missing-vowels handler whose pairs have lost their answers
WithoutAnswers(h) ==
    [h EXCEPT !.current_group = [i \in 1..Len(@) |-> <<<<>>, @[i][2]>>],
              !.questions = [g \in 1..Len(@) |->
                  [@[g] EXCEPT !.words = [i \in 1..Len(@) |-> <<<<>>, @[i][2]>>]]]]

\* C32 as stated: the public view of Missing Vowels shows the prompt text
\* only while the question is active and the answer text only once it is
\* revealed, and never the connection of the group.
C32_PublicViewTextOnly ==
    (current_state.kind = "vowels" /\ MvActiveQuestion(current_state).shown) =>
        LET pair == current_state.current_group[current_state.question_index + 1]
            view == MvActiveQuestion(current_state)
        IN  /\ view.connection = 0
            /\ view.text = IF current_state.state = QUESTION_ACTIVE THEN pair[2] ELSE pair[1]

\* C32 amended: the public view shows the connection of the group with the
\* prompt while the question is active and with the answer once it is
\* revealed; while the question is active the answer is in the host's view
\* only, the public view being the one of a round without its answers.
C32_PublicViewHidesAnswer ==
    (current_state.kind = "vowels" /\ MvActiveQuestion(current_state).shown) =>
        LET pair == current_state.current_group[current_state.question_index + 1]
            view == MvActiveQuestion(current_state)
            host == MvAdminState(current_state)
        IN  /\ view.connection = host.connection
            /\ host.answer = pair[1]
            /\ host.text = pair[2]
            /\ current_state.state = QUESTION_ACTIVE =>
                   /\ view.text = pair[2]
                   /\ view = MvActiveQuestion(WithoutAnswers(current_state))
            /\ current_state.state = ANSWER_REVEALED => view.text = pair[1]

\* a question is active whose answer differs from its prompt
C32_QuestionActive ==
    /\ current_state.kind = "vowels"
    /\ current_state.state = QUESTION_ACTIVE
    /\ MvActiveQuestion(current_state).shown
    /\ MvAdminState(current_state).answer # MvActiveQuestion(current_state).text

\* Socket.__init__ keeps the session of the request, whose user is None
\* until a login: the game manager's socket here is a visitor's, the
\* full-screen socket a logged-in user's
SessionUser(s) == IF s = "g1" THEN None ELSE Some("owner")

\* C33: a command of the game manager's endpoint issued by a socket whose
\* session has no authenticated user leaves the round, its handler and the
\* scores unchanged.
C33_VisitorCannotChangeRoom ==
    [][ \A s \in Sockets, choice \in PossibleActions, shuffle \in Shuffles :
            (IsNone(SessionUser(s)) /\ Action(s, choice, shuffle))
                => UNCHANGED <<current_round, current_state, teams>> ]_vars

SpecPresence == InitRoom(Episode(None, None, None, None), 1, {}) /\ [][NextPresence]_vars

\* C34: the presence map of an edit session lists no socket whose
\* connection has ended (the task of its Endpoint.__call__ is over), and
\* the editors still connected have been sent a frame without it.
C34_PresenceListsConnectedOnly ==
    \A e \in Editors :
        edit_task[e] \in {"ended", "failed"} =>
            /\ IsNone(editing[e])
            /\ \A o \in Editors \ {e} :
                   (edit_task[o] = "reading" /\ edit_link[o] = "open" /\ ~IsNone(positions[o]))
                       => \A entry \in Get(positions[o]) : entry[1] # e

\* C35: on an active wall `selected` holds at most SLOTS_PER_CONNECTION
\* entries, all different and each an index into `ungrouped`, whatever the
\* interleaving of the toggles and LOCK_IN of the sockets.
C35_SelectedWithinWall ==
    (current_state.kind = "wall" /\ ~IsNone(current_state.active_wall)) =>
        LET aw == Get(current_state.active_wall)
        IN  /\ Len(aw.selected) <= SLOTS_PER_CONNECTION
            /\ \A i, j \in 1..Len(aw.selected) : aw.selected[i] = aw.selected[j] => i = j
            /\ \A i \in 1..Len(aw.selected) : aw.selected[i] \in 0..(Len(aw.ungrouped) - 1)

\* OnlyConnectGMEndpoint._state_representation: the actions offered to the host
GMOfferedActions(round, h, t) ==
    IF h.kind # "none" THEN HandlerPossibleActions(h, t)
    ELSE IF round = PRE_GAME THEN {START_NEXT_ROUND}
    ELSE {}

\* C36: START_NEXT_ROUND issued while it is not offered (the room is past
\* pre-game and its handler is not in POST_ROUND) leaves the round, the
\* handler and the scores unchanged.
C36_NextRoundOnlyWhenOffered ==
    [][ \A s \in Sockets, shuffle \in Shuffles :
            ( /\ START_NEXT_ROUND \notin GMOfferedActions(current_round, current_state, teams)
              /\ Action(s, START_NEXT_ROUND, shuffle) )
                => UNCHANGED <<current_round, current_state, teams>> ]_vars

\* Endpoint.__call__ up to `await socket.prepare(request)`: a stopped
\* endpoint refuses, otherwise the upgrade of the connection begins
ConnectBegins(c) ==
    /\ task[c] = "none"
    /\ IF endpoint_stopped[ClientEndpoint(c)]
       THEN /\ event' = Event("connect", "", "not found")
            /\ UNCHANGED task
       ELSE /\ task' = [task EXCEPT ![c] = "preparing"]
            /\ event' = Event("connect", "", "preparing")
    /\ UNCHANGED <<room_stopped, endpoint_stopped, endpoint_sockets, transport, received>>
    /\ UNCHANGED notRuntimeVars

\* Endpoint.__call__ from the return of socket.prepare to the message loop:
\* the socket is added to the set of its endpoint
ConnectEnds(c) ==
    /\ task[c] = "preparing"
    /\ endpoint_sockets' = [endpoint_sockets EXCEPT ![ClientEndpoint(c)] = @ \cup {c}]
    /\ transport' = [transport EXCEPT ![c] = "open"]
    /\ task' = [task EXCEPT ![c] = "reading"]
    /\ event' = Event("connect", "", "joined")
    /\ UNCHANGED <<room_stopped, endpoint_stopped, received>>
    /\ UNCHANGED notRuntimeVars

\* a room whose connections take time to upgrade
NextUpgrade ==
    \/ \E c \in Clients : ConnectBegins(c)
    \/ \E c \in Clients : ConnectEnds(c)
    \/ \E c \in Clients : Drop(c)
    \/ \E c \in Clients : Leave(c)
    \/ \E c \in Senders, msg \in Messages :
          \E orders \in StopOrders(endpoint_sockets) : Receive(c, msg, orders)
    \/ \E orders \in StopOrders(endpoint_sockets) : Stop(orders)

SpecUpgrade == InitRoom(Episode(None, None, None, None), 1, {}) /\ [][NextUpgrade]_vars

\* C37: once every endpoint of the room has been stopped, no socket whose
\* connection is open is in the socket set of an endpoint, whenever its
\* upgrade began.
C37_NoOpenSocketAfterStop ==
    (\A e \in Endpoints : endpoint_stopped[e]) =>
        \A e \in Endpoints : \A c \in endpoint_sockets[e] : transport[c] # "open"

SpecTwin == InitRoom(Episode(None, None, None, None), 1, {}) /\ [][NextTwin]_vars

\* C38: a save from one edit room of a draft changes of the stored draft
\* only the sections its own editors have changed: what another room of the
\* same draft has saved elsewhere is not overwritten.
C38_SaveKeepsOtherRoomsEdits ==
    [][ \A r \in EditRooms :
            (TwinSave(r) \/ TwinStop(r)) =>
                \A s \in Sections : s \notin room_edited[r] => draft_data'[s] = draft_data[s] ]_vars

SpecShelf == InitRoom(Episode(None, None, None, None), 1, {}) /\ [][NextShelf]_vars

\* C39: what the load of the published version gives (content, title and
\* description) is what was published, whatever was saved of a draft or of
\* a version in review since.
C39_PublishedUntouchedByDrafts ==
    ~IsNone(served) => (Get(served).data = "t" /\ Get(served).title = "t")

SpecTot == InitRoom(Episode(None, None, None, None), 1, {}) /\ [][NextTot]_vars

\* the category of a question: this when only is_this, that when only
\* is_that, both when both and neither when neither
Category(q) ==
    IF q.is_this /\ q.is_that THEN BOTH
    ELSE IF q.is_this THEN THIS
    ELSE IF q.is_that THEN THAT
    ELSE NEITHER

\* C40: reveal_answer on a question gives one point to each team whose vote
\* is the category of the question and nothing to the others.
C40_PointForTrueCategory ==
    [][ (RevealAnswer /\ tot_state = QUESTION) =>
            \A t \in ThisOrThatTeams :
                team_score'[t] = team_score[t]
                    + (IF team_vote[t] = Some(Category(ThisOrThatQuestions[question_index + 1]))
                       THEN 1 ELSE 0) ]_vars

====
